---- MODULE Spec2Model ----
(***************************************************************************)
(* State-machine model of the up-vsomeip-helloworld example:               *)
(*   - hello_client  : request thread (run / send_hello), reply handler    *)
(*                     (on_hello_reply) and stop()                         *)
(*   - hello_service : request handler (on_message_cb)                     *)
(*   - Timer         : add_timer / timer_thread / stop_timers              *)
(*   - hello_utils   : raw-mode text payload encode / decode               *)
(* Strings and payloads are sequences of byte values.                      *)
(***************************************************************************)
EXTENDS Integers, Sequences, FiniteSets, TLC

(***************************************************************************)
(* Bounds of the model                                                     *)
(***************************************************************************)
\* request_count_ given to the client (--req N): number of SayHello calls
RequestCount == 2
\* longest hello text given on the command line
MaxMsgLen == 1
\* largest number of callback invocations followed per timer
MaxFirings == 2
\* subscription notifications the dispatcher delivers
MaxSubs == 3
\* events handed to app_->notify()
MaxEvents == 1
\* characters of a text handed to the serialize calls
MaxTextLen == 2
\* requests other clients send the service
MaxPeerRequests == 2

(***************************************************************************)
(* Program constants                                                       *)
(***************************************************************************)
HELLO_SERVICE_ID == 24576
HELLO_INSTANCE_ID == 1
HELLO_METHOD_ID == 32769
HELLO_SERVICE_MAJOR == 0
VSOMEIP_PROTOCOL_VERSION == 1
ANY_MAJOR == 255

\* vsomeip::return_code_e values used by the handlers
E_OK == "E_OK"
E_NOT_OK == "E_NOT_OK"
E_UNKNOWN_SERVICE == "E_UNKNOWN_SERVICE"
E_UNKNOWN_METHOD == "E_UNKNOWN_METHOD"
E_WRONG_PROTOCOL_VERSION == "E_WRONG_PROTOCOL_VERSION"
E_WRONG_INTERFACE_VERSION == "E_WRONG_INTERFACE_VERSION"
E_MALFORMED_MESSAGE == "E_MALFORMED_MESSAGE"
E_UNKNOWN == "E_UNKNOWN"

\* the text "Hello " and the character '#'
HelloPrefix == <<72, 101, 108, 108, 111, 32>>
HashChar == <<35>>
\* characters a hello text is made of ('W')
MsgChars == {87}

RECURSIVE StringsUpTo(_)
StringsUpTo(n) ==
    IF n = 0 THEN {<<>>}
    ELSE LET shorter == StringsUpTo(n - 1)
         IN  shorter \cup {Append(s, c) : s \in shorter, c \in MsgChars}

\* hello texts the client may be started with
Msgs == StringsUpTo(MaxMsgLen)

\* std::to_string(k) for a one-digit k
to_string_int(k) == <<48 + k>>

(***************************************************************************)
(* hello_utils: text payloads                                              *)
(***************************************************************************)
\* whether the build defines AUTOSAR_WIRE (length-prefixed texts); it is
\* fixed when the program is built and never changes afterwards
VARIABLE AUTOSAR_WIRE

\* serialize_int32(): the four bytes of a 32 bit value, most significant
\* first (two's complement for a negative value)
serialize_int32(v) ==
    << (v \div 16777216) % 256, (v \div 65536) % 256,
       (v \div 256) % 256, v % 256 >>

\* variant: the least significant byte is read first
bytes_to_long_le(x0, x1, x2, x3) ==
    (IF x3 >= 128 THEN x3 - 256 ELSE x3) * 16777216
        + x2 * 65536 + x1 * 256 + x0

\* VSOMEIP_BYTES_TO_LONG() converted to int32_t
bytes_to_long(x0, x1, x2, x3) ==
    (IF x0 >= 128 THEN x0 - 256 ELSE x0) * 16777216
        + x1 * 65536 + x2 * 256 + x3

\* variant: one more byte is asked for after the four of the value
deserialize_int32_short(data, index) ==
    IF index + 5 >= Len(data)
    THEN [value |-> -1, index |-> index]
    ELSE [value |-> bytes_to_long(data[index + 1], data[index + 2],
                                  data[index + 3], data[index + 4]),
          index |-> index + 4]

\* deserialize_int32(): -1 with index left alone if (index + 4 >= data_size),
\* else the value of the four bytes at index, and index advanced by 4
deserialize_int32(data, index) ==
    IF index + 4 >= Len(data)
    THEN [value |-> -1, index |-> index]
    ELSE [value |-> bytes_to_long(data[index + 1], data[index + 2],
                                  data[index + 3], data[index + 4]),
          index |-> index + 4]

\* serialize_string(): the size with its '\0' counted, the bytes, a '\0'
serialize_string(value) ==
    serialize_int32(Len(value) + 1) \o value \o <<0>>

\* deserialize_string(): {} if there is no room for the size or the size
\* (compared as uint32_t) is above data_size - 4, else
\* std::string(data + index, str_size - 1); with str_size = 0 that count is
\* SIZE_MAX and the behaviour of the constructor is undefined
deserialize_string(data, index) ==
    IF index + 4 >= Len(data)
    THEN [undefined |-> FALSE, value |-> <<>>]
    ELSE LET r == deserialize_int32(data, index)
             str_size == r.value
         IN  IF str_size < 0 \/ str_size > Len(data) - 4
             THEN [undefined |-> FALSE, value |-> <<>>]
             ELSE IF str_size = 0
             THEN [undefined |-> TRUE, value |-> <<>>]
             ELSE [undefined |-> FALSE,
                   value |-> SubSeq(data, r.index + 1,
                                    r.index + str_size - 1)]

\* #ifdef AUTOSAR_WIRE: serialize_string(), else
\* payload->set_data(c_str(), size() + 1): the text followed by '\0'
serialize_hello_request(message) ==
    IF AUTOSAR_WIRE THEN serialize_string(message) ELSE message \o <<0>>

\* payload_length > 0: deserialize_string() if AUTOSAR_WIRE, else the first
\* payload_length - 1 bytes; true is returned either way; else failure
deserialize_hello_request(payload) ==
    IF Len(payload) > 0
    THEN IF AUTOSAR_WIRE
         THEN LET r == deserialize_string(payload, 0)
              IN  [ok |-> TRUE, message |-> r.value,
                   undefined |-> r.undefined]
         ELSE [ok |-> TRUE, message |-> SubSeq(payload, 1, Len(payload) - 1),
               undefined |-> FALSE]
    ELSE [ok |-> FALSE, message |-> <<>>, undefined |-> FALSE]

serialize_hello_response(reply) ==
    IF AUTOSAR_WIRE THEN serialize_string(reply) ELSE reply \o <<0>>

\* variant: the reply keeps the terminating '\0' of the payload
deserialize_hello_response_whole(payload) ==
    IF Len(payload) > 0
    THEN [ok |-> TRUE, reply |-> payload]
    ELSE [ok |-> FALSE, reply |-> <<>>]

\* the first payload_length - 1 bytes, whether AUTOSAR_WIRE is defined or not
deserialize_hello_response(payload) ==
    IF Len(payload) > 0
    THEN [ok |-> TRUE, reply |-> SubSeq(payload, 1, Len(payload) - 1)]
    ELSE [ok |-> FALSE, reply |-> <<>>]

(***************************************************************************)
(* State                                                                   *)
(***************************************************************************)
VARIABLES
    \* ---- hello_client ----
    running_,        \* client running_ flag
    hello_req_,      \* hello text given at construction
    hello_req_id_,   \* active correlation id (0 = cleared)
    hello_resp_,     \* reply text stored by on_hello_reply
    request_mutex_,  \* "free" or "request_thread"
    handlers_,       \* message handler still registered with the application
    rq_pc,           \* position of the request thread
    hello_sent,      \* run(): counter of the request being sent (from 1)
    req_id,          \* send_hello(): id of the request of the current call
    hello_reqest,    \* send_hello(): text of the request of the current call
    ret,             \* reply text of the Response returned by the last call
    ret_kind,        \* return statement the last call left through
    session,         \* last session id handed out by app_->send()
    stop_pc,         \* position of a stop() call
    requests,        \* requests in flight to the service
    replies,         \* responses in flight to the client
    \* ---- history of the current call ----
    matched,         \* <<match>> made while the current call was in its wait
    last_reply,      \* what on_hello_reply did with the last reply
    resolved,        \* ids of the requests a reply has matched so far
    replaced,        \* what the slot held when the last send overwrote it
    initialized_,    \* client initialized_ flag
    is_available_,   \* client is_available_ flag
    request_count_,  \* how many requests run() is to send
    mutex_,          \* owner of the client's mutex_, or "free"
    init_pc,         \* "idle", "done" or "failed": what init() has done
    stop_before_ready, \* stop() began before init() and availability both held
    \* ---- Timer ----
    is_running_,     \* Timer::is_running_ (atomic)
    mtx_,            \* Timer::mtx_: the set of timer threads holding it
    t_pc,            \* position of each timer thread
    recurring,       \* timer_thread(): recurring argument of each thread
    to_wait_us,      \* timer_thread(): to_wait_us of each thread
    stt_pc,          \* position of a stop_timers() call
    \* ---- history of the timers ----
    cb_started,      \* callback invocations started, per timer
    cb_returned,     \* callback invocations returned, per timer
    wait_elapsed,    \* the wait before the next invocation ran out, per timer
    elapsed,         \* timer_thread(): elapsed (us) of the last callback
    threads_,        \* Timer::threads_, in the order of the add_timer() calls
    dtor_pc,         \* position of the ~Timer() call
    dtor_by,         \* thread running ~Timer(): "owner" or a timer thread
    dtor_i,          \* ~Timer(): index of the thread the loop is at
    joined,          \* timer threads ~Timer() has joined
    detached,        \* timer threads ~Timer() has detached
    \* ---- hello_service ----
    is_offered_,     \* hello_service::is_offered_
    service_running_,\* hello_service::running_
    subscribe_count_,\* hello_service::subscribe_count_ (atomic int32)
    sub_count,       \* on_subscription_cb(): static uint32_t sub_count
    toggle_ack,      \* TOGGLE_ACK setting
    toggle_offer,    \* TOGGLE_OFFER setting
    sub_handlers_,   \* subscription handler still registered
    offer_pc,        \* position of offer_th()
    is_offer,        \* offer_th(): is_offer
    service_stop_pc, \* position of hello_service::stop()
    ne_pc,           \* position of the notify_event() call in progress
    ne_event,        \* notify_event(): the event argument
    ne_ret,          \* what the last notify_event() call returned
    notified,        \* payloads handed to app_->notify(), in order
    \* ---- history of the subscription notifications ----
    sub_log,         \* <<is_subscribed, sub_ack>> of every notification
    \* ---- history of offer_th() ----
    toggle_hist      \* "off": offer withdrawn with subscribers; "on": back

startVars == <<initialized_, is_available_, request_count_, mutex_, init_pc,
               stop_before_ready>>

clientVars == <<running_, hello_req_, hello_req_id_, hello_resp_,
                request_mutex_, handlers_, rq_pc, hello_sent, req_id,
                hello_reqest, ret, ret_kind, session, stop_pc,
                requests, replies, matched, last_reply, resolved, replaced,
                startVars>>

dtorVars == <<threads_, dtor_pc, dtor_by, dtor_i, joined, detached>>

timerVars == <<is_running_, mtx_, t_pc, recurring, to_wait_us, stt_pc,
               cb_started, cb_returned, wait_elapsed, elapsed, dtorVars>>

\* ---- hello_service: init(), the shutdown thread, the notify thread ----
VARIABLES
    blocked_, shutdown_requested_, shutdown_mutex_, shutdown_pc,
    service_mutex_, service_init_pc, notify_mutex_, notify_pc

shutdownVars == <<blocked_, shutdown_requested_, shutdown_mutex_, shutdown_pc,
                  service_mutex_, service_init_pc, notify_mutex_, notify_pc>>

serviceVars == <<is_offered_, service_running_, subscribe_count_, sub_count,
                 toggle_ack, toggle_offer, sub_handlers_, offer_pc, is_offer,
                 service_stop_pc, ne_pc, ne_event, ne_ret, notified, sub_log,
                 toggle_hist, shutdownVars>>

\* ---- hello_utils applied to one payload ----
VARIABLES
    c_pc,            \* "idle", "encoded", "received", "round_trip", "decoded"
    c_kind,          \* "request", "response", "event" or "none"
    c_text,          \* the text handed to serialize_hello_request/response
    c_event,         \* the event handed to serialize_hello_event
    c_payload,       \* the bytes of the payload
    c_out            \* what the deserialize call gave its caller

codecVars == <<AUTOSAR_WIRE, c_pc, c_kind, c_text, c_event, c_payload, c_out>>

vars == <<clientVars, timerVars, serviceVars, codecVars>>

(***************************************************************************)
(* hello_service::on_message_cb                                            *)
(***************************************************************************)
\* configuration of the service (DEFAULT_CONFIG, used_services holds its id)
used_services == {HELLO_SERVICE_ID}

\* variant: the instance is checked before the interface version
on_message_cb_response_instance_first(q) ==
    IF q.protocol_version # VSOMEIP_PROTOCOL_VERSION
    THEN [sent |-> TRUE, rc |-> E_WRONG_PROTOCOL_VERSION, payload |-> <<>>]
    ELSE IF q.service # HELLO_SERVICE_ID /\ q.service \notin used_services
    THEN [sent |-> TRUE, rc |-> E_UNKNOWN_SERVICE, payload |-> <<>>]
    ELSE IF q.instance # HELLO_INSTANCE_ID
    THEN [sent |-> TRUE, rc |-> E_UNKNOWN, payload |-> <<>>]
    ELSE IF q.interface_version # HELLO_SERVICE_MAJOR
            /\ q.interface_version # ANY_MAJOR
    THEN [sent |-> TRUE, rc |-> E_WRONG_INTERFACE_VERSION, payload |-> <<>>]
    ELSE LET request == deserialize_hello_request(q.payload)
         IN  IF request.ok
             THEN [sent |-> TRUE, rc |-> E_OK,
                   payload |-> serialize_hello_response(
                                   HelloPrefix \o request.message)]
             ELSE [sent |-> TRUE, rc |-> E_MALFORMED_MESSAGE,
                   payload |-> <<>>]

\* variant: a payload that fails to decode is returned from without a send
on_message_cb_response_malformed_unsent(q) ==
    IF q.protocol_version # VSOMEIP_PROTOCOL_VERSION
    THEN [sent |-> TRUE, rc |-> E_WRONG_PROTOCOL_VERSION, payload |-> <<>>]
    ELSE IF q.service # HELLO_SERVICE_ID /\ q.service \notin used_services
    THEN [sent |-> TRUE, rc |-> E_UNKNOWN_SERVICE, payload |-> <<>>]
    ELSE IF q.interface_version # HELLO_SERVICE_MAJOR
            /\ q.interface_version # ANY_MAJOR
    THEN [sent |-> TRUE, rc |-> E_WRONG_INTERFACE_VERSION, payload |-> <<>>]
    ELSE IF q.instance # HELLO_INSTANCE_ID
    THEN [sent |-> TRUE, rc |-> E_UNKNOWN, payload |-> <<>>]
    ELSE LET request == deserialize_hello_request(q.payload)
         IN  IF request.ok
             THEN [sent |-> TRUE, rc |-> E_OK,
                   payload |-> serialize_hello_response(
                                   HelloPrefix \o request.message)]
             ELSE [sent |-> FALSE, rc |-> E_MALFORMED_MESSAGE,
                   payload |-> <<>>]

\* return code and payload of the response built for request q;
\* sent = FALSE on the paths that return before app_->send()
on_message_cb_response(q) ==
    IF q.protocol_version # VSOMEIP_PROTOCOL_VERSION
    THEN [sent |-> TRUE, rc |-> E_WRONG_PROTOCOL_VERSION, payload |-> <<>>]
    ELSE IF q.service # HELLO_SERVICE_ID /\ q.service \notin used_services
    THEN [sent |-> TRUE, rc |-> E_UNKNOWN_SERVICE, payload |-> <<>>]
    ELSE IF q.interface_version # HELLO_SERVICE_MAJOR
            /\ q.interface_version # ANY_MAJOR
    THEN [sent |-> TRUE, rc |-> E_WRONG_INTERFACE_VERSION, payload |-> <<>>]
    ELSE IF q.instance # HELLO_INSTANCE_ID
    THEN [sent |-> TRUE, rc |-> E_UNKNOWN, payload |-> <<>>]
    ELSE IF q.service = HELLO_SERVICE_ID \/ q.service \in used_services
    THEN LET request == deserialize_hello_request(q.payload)
         IN  IF request.ok
             THEN [sent |-> TRUE, rc |-> E_OK,
                   payload |-> serialize_hello_response(
                                   HelloPrefix \o request.message)]
             ELSE [sent |-> TRUE, rc |-> E_MALFORMED_MESSAGE,
                   payload |-> <<>>]
    ELSE IF q.instance # HELLO_INSTANCE_ID
    THEN [sent |-> FALSE, rc |-> E_NOT_OK, payload |-> <<>>]
    ELSE IF q.method # HELLO_METHOD_ID
    THEN [sent |-> FALSE, rc |-> E_UNKNOWN_METHOD, payload |-> <<>>]
    ELSE [sent |-> TRUE, rc |-> E_OK, payload |-> <<>>]

\* the service handles one request in flight and sends its response
on_message_cb(q) ==
    /\ q \in requests
    /\ LET r == on_message_cb_response(q)
       IN  /\ requests' = requests \ {q}
           /\ replies' = IF r.sent
                         THEN replies \cup
                              {[id |-> q.id, rc |-> r.rc,
                                payload |-> r.payload]}
                         ELSE replies
    /\ UNCHANGED <<running_, hello_req_, hello_req_id_, hello_resp_,
                   request_mutex_, handlers_, rq_pc, hello_sent, req_id,
                   hello_reqest, ret, ret_kind, session, stop_pc,
                   matched, last_reply, resolved, replaced>>
    /\ UNCHANGED <<startVars, timerVars, serviceVars, codecVars>>

\* requests other clients may send the service: any protocol version,
\* service, interface version and instance, with or without a text
PeerRequests ==
    [id : {0},
     protocol_version : {VSOMEIP_PROTOCOL_VERSION, VSOMEIP_PROTOCOL_VERSION + 1},
     service : {HELLO_SERVICE_ID, HELLO_SERVICE_ID + 1},
     instance : {HELLO_INSTANCE_ID, HELLO_INSTANCE_ID + 1},
     interface_version : {HELLO_SERVICE_MAJOR, HELLO_SERVICE_MAJOR + 1,
                          ANY_MAJOR},
     method : {HELLO_METHOD_ID},
     payload : {<<>>, <<87, 0>>}]

\* a request of another client reaches the service, with the next free id
peer_request(q) ==
    /\ Cardinality(requests) + Cardinality(replies) < MaxPeerRequests
    /\ requests' = requests \cup
           {[q EXCEPT !.id = Cardinality(requests) + Cardinality(replies) + 1]}
    /\ UNCHANGED <<running_, hello_req_, hello_req_id_, hello_resp_,
                   request_mutex_, handlers_, rq_pc, hello_sent, req_id,
                   hello_reqest, ret, ret_kind, session, stop_pc, replies,
                   matched, last_reply, resolved, replaced>>
    /\ UNCHANGED <<startVars, timerVars, serviceVars, codecVars>>

\* a reply with return code E_OK and an empty payload reaches the client
peer_reply(id) ==
    /\ replies' = replies \cup {[id |-> id, rc |-> E_OK, payload |-> <<>>]}
    /\ UNCHANGED <<running_, hello_req_, hello_req_id_, hello_resp_,
                   request_mutex_, handlers_, rq_pc, hello_sent, req_id,
                   hello_reqest, ret, ret_kind, session, stop_pc, requests,
                   matched, last_reply, resolved, replaced>>
    /\ UNCHANGED <<startVars, timerVars, serviceVars, codecVars>>

(***************************************************************************)
(* hello_client: request thread                                            *)
(***************************************************************************)
\* the request built by send_hello() for text m, with the id send() gave it
hello_request(id, m) ==
    [id |-> id,
     protocol_version |-> VSOMEIP_PROTOCOL_VERSION,
     service |-> HELLO_SERVICE_ID,
     instance |-> HELLO_INSTANCE_ID,
     interface_version |-> HELLO_SERVICE_MAJOR,
     method |-> HELLO_METHOD_ID,
     payload |-> serialize_hello_request(m)]

\* run(): text of request number k ("#k" appended when several are sent)
request_text(k) ==
    IF request_count_ > 1
    THEN hello_req_ \o HashChar \o to_string_int(k)
    ELSE hello_req_

\* request_condition_.notify_one(): wakes the request thread if it is blocked
request_condition_notify_one(pc) == IF pc = "waiting" THEN "woken" ELSE pc

\* condition_.notify_one(): wakes the request thread if it waits for init
condition_notify_one(pc) == IF pc = "gate_wait" THEN "gate_woken" ELSE pc

\* init(): under mutex_; a failed app_->init() returns false, else the
\* handlers are registered, initialized_ = true, condition_.notify_one()
init(app_init_ok) ==
    /\ init_pc = "idle"
    /\ mutex_ = "free"
    /\ IF app_init_ok
       THEN /\ init_pc' = "done"
            /\ handlers_' = TRUE
            /\ initialized_' = TRUE
            /\ rq_pc' = condition_notify_one(rq_pc)
       ELSE /\ init_pc' = "failed"
            /\ UNCHANGED <<handlers_, initialized_, rq_pc>>
    /\ UNCHANGED <<running_, hello_req_, hello_req_id_, hello_resp_,
                   request_mutex_, hello_sent, req_id, hello_reqest, ret,
                   ret_kind, session, stop_pc, requests, replies, matched,
                   last_reply, resolved, replaced>>
    /\ UNCHANGED <<is_available_, request_count_, mutex_, stop_before_ready>>
    /\ UNCHANGED <<timerVars, serviceVars, codecVars>>

\* on_availability(): under mutex_, is_available_ = _is_available and
\* condition_.notify_one()
on_availability(is_available) ==
    /\ handlers_
    /\ mutex_ = "free"
    /\ is_available_' = is_available
    /\ rq_pc' = condition_notify_one(rq_pc)
    /\ UNCHANGED <<running_, hello_req_, hello_req_id_, hello_resp_,
                   request_mutex_, handlers_, hello_sent, req_id,
                   hello_reqest, ret, ret_kind, session, stop_pc, requests,
                   replies, matched, last_reply, resolved, replaced>>
    /\ UNCHANGED <<initialized_, request_count_, mutex_, init_pc,
                   stop_before_ready>>
    /\ UNCHANGED <<timerVars, serviceVars, codecVars>>

\* what the request thread's steps before the request loop leave alone
gateUnchanged ==
    /\ UNCHANGED <<running_, hello_req_, hello_req_id_, hello_resp_,
                   request_mutex_, handlers_, hello_sent, req_id,
                   hello_reqest, ret, ret_kind, session, stop_pc, requests,
                   replies, matched, last_reply, resolved, replaced>>
    /\ UNCHANGED <<initialized_, is_available_, request_count_, init_pc,
                   stop_before_ready>>
    /\ UNCHANGED <<timerVars, serviceVars, codecVars>>

\* run(): if (request_count_ == 0) return
run_start ==
    /\ rq_pc = "start"
    /\ rq_pc' = IF request_count_ = 0 THEN "finished" ELSE "gate_lock"
    /\ UNCHANGED mutex_
    /\ gateUnchanged

\* run(): std::unique_lock<std::mutex> its_lock(mutex_)
run_gate_lock ==
    /\ rq_pc = "gate_lock"
    /\ mutex_ = "free"
    /\ mutex_' = "request_thread"
    /\ rq_pc' = "gate"
    /\ gateUnchanged

\* run(): while (running_ && ...), the read of running_
run_gate_running ==
    /\ rq_pc = "gate"
    /\ rq_pc' = IF running_ THEN "gate_flags" ELSE "loop"
    /\ UNCHANGED mutex_
    /\ gateUnchanged

\* variant: the wait for init and availability is skipped
gate_closed_never(initialized, is_available) == FALSE

\* run(): (!initialized_ || !is_available_)
gate_closed(initialized, is_available) == ~initialized \/ ~is_available

\* run(): while (... && (!initialized_ || !is_available_))
run_gate_flags ==
    /\ rq_pc = "gate_flags"
    /\ rq_pc' = IF gate_closed(initialized_, is_available_)
                THEN "gate_block" ELSE "loop"
    /\ UNCHANGED mutex_
    /\ gateUnchanged

\* run(): condition_.wait(its_lock) gives up mutex_ and blocks
run_gate_wait ==
    /\ rq_pc = "gate_block"
    /\ mutex_' = "free"
    /\ rq_pc' = "gate_wait"
    /\ gateUnchanged

\* condition_.wait() may wake without a notification
gate_spurious_wake ==
    /\ rq_pc = "gate_wait"
    /\ rq_pc' = "gate_woken"
    /\ UNCHANGED mutex_
    /\ gateUnchanged

\* condition_.wait() takes mutex_ again and returns
run_gate_relock ==
    /\ rq_pc = "gate_woken"
    /\ mutex_ = "free"
    /\ mutex_' = "request_thread"
    /\ rq_pc' = "gate"
    /\ gateUnchanged

\* run(): top of while (running_)
run_loop ==
    /\ rq_pc = "loop"
    /\ rq_pc' = IF running_ THEN "call" ELSE "finished"
    /\ mutex_' = IF running_ THEN mutex_ ELSE "free"
    /\ UNCHANGED <<running_, hello_req_, hello_req_id_, hello_resp_,
                   request_mutex_, handlers_, hello_sent, req_id,
                   hello_reqest, ret, ret_kind, session, stop_pc,
                   requests, replies, matched, last_reply, resolved, replaced>>
    /\ UNCHANGED <<initialized_, is_available_, request_count_, init_pc,
                   stop_before_ready>>
    /\ UNCHANGED <<timerVars, serviceVars, codecVars>>

\* variant: the id is stored only into a cleared slot
stored_id_if_free(held, id) == IF held = 0 THEN id ELSE held

\* send_hello(): hello_req_id_ = req_id, whatever the slot held
stored_id(held, id) == id

\* variant: the lock is given up as soon as the request is sent
its_lock_until_sent(owner) == "free"

\* send_hello(): std::unique_lock its_lock(request_mutex_) in the first line
\* keeps request_mutex_ with its owner past app_->send(rq)
its_lock(owner) == owner

\* send_hello(): lock request_mutex_, build and send the request, store its id
send_hello_begin ==
    /\ rq_pc = "call"
    /\ request_mutex_ = "free"
    /\ request_mutex_' = its_lock("request_thread")
    /\ hello_reqest' = request_text(hello_sent)
    /\ session' = session + 1
    /\ req_id' = session'
    /\ requests' = requests \cup {hello_request(req_id', hello_reqest')}
    /\ hello_req_id_' = stored_id(hello_req_id_, req_id')
    /\ replaced' = hello_req_id_
    /\ matched' = <<>>
    /\ rq_pc' = "sent"
    /\ UNCHANGED <<running_, hello_req_, hello_resp_, handlers_, hello_sent,
                   ret, ret_kind, stop_pc, replies, last_reply, resolved>>
    /\ UNCHANGED <<startVars, timerVars, serviceVars, codecVars>>

\* send_hello(): if (running_ && wait_response), else return the empty response
send_hello_check ==
    /\ rq_pc = "sent"
    /\ IF running_
       THEN /\ rq_pc' = "about_to_wait"
            /\ UNCHANGED <<request_mutex_, ret, ret_kind>>
       ELSE /\ rq_pc' = "returned"
            /\ request_mutex_' = "free"
            /\ ret' = <<>>
            /\ ret_kind' = "not_waited"
    /\ UNCHANGED <<running_, hello_req_, hello_req_id_, hello_resp_,
                   handlers_, hello_sent, req_id, hello_reqest, session,
                   stop_pc, requests, replies, matched, last_reply, resolved, replaced>>
    /\ UNCHANGED <<startVars, timerVars, serviceVars, codecVars>>

\* request_condition_.wait_for(): release request_mutex_ and block
send_hello_wait ==
    /\ rq_pc = "about_to_wait"
    /\ rq_pc' = "waiting"
    /\ request_mutex_' = "free"
    /\ UNCHANGED <<running_, hello_req_, hello_req_id_, hello_resp_,
                   handlers_, hello_sent, req_id, hello_reqest, ret,
                   ret_kind, session, stop_pc, requests, replies, matched,
                   last_reply, resolved, replaced>>
    /\ UNCHANGED <<startVars, timerVars, serviceVars, codecVars>>

\* the 5 seconds run out before wait_for() has returned
wait_expire ==
    /\ rq_pc \in {"waiting", "woken"}
    /\ rq_pc' = "expired"
    /\ UNCHANGED <<running_, hello_req_, hello_req_id_, hello_resp_,
                   request_mutex_, handlers_, hello_sent, req_id,
                   hello_reqest, ret, ret_kind, session, stop_pc,
                   requests, replies, matched, last_reply, resolved, replaced>>
    /\ UNCHANGED <<startVars, timerVars, serviceVars, codecVars>>

\* wait_for() has no predicate: the thread may wake without a notification
spurious_wake ==
    /\ rq_pc = "waiting"
    /\ rq_pc' = "woken"
    /\ UNCHANGED <<running_, hello_req_, hello_req_id_, hello_resp_,
                   request_mutex_, handlers_, hello_sent, req_id,
                   hello_reqest, ret, ret_kind, session, stop_pc,
                   requests, replies, matched, last_reply, resolved, replaced>>
    /\ UNCHANGED <<startVars, timerVars, serviceVars, codecVars>>

\* variant: the result of wait_for() is not looked at
send_hello_result_ignores_timeout(pc) ==
    IF ~running_ THEN [kind |-> "stopped", reply |-> <<>>]
    ELSE [kind |-> "reply", reply |-> hello_resp_]

\* what send_hello() returns once wait_for() has returned
send_hello_result(pc) ==
    IF pc = "expired" THEN [kind |-> "timeout", reply |-> <<>>]
    ELSE IF ~running_ THEN [kind |-> "stopped", reply |-> <<>>]
    ELSE [kind |-> "reply", reply |-> hello_resp_]

\* wait_for() relocks request_mutex_ and returns; send_hello() returns
send_hello_return ==
    /\ rq_pc \in {"woken", "expired"}
    /\ request_mutex_ = "free"
    /\ ret' = send_hello_result(rq_pc).reply
    /\ ret_kind' = send_hello_result(rq_pc).kind
    /\ rq_pc' = "returned"
    /\ UNCHANGED <<running_, hello_req_, hello_req_id_, hello_resp_,
                   request_mutex_, handlers_, hello_sent, req_id,
                   hello_reqest, session, stop_pc, requests, replies,
                   matched, last_reply, resolved, replaced>>
    /\ UNCHANGED <<startVars, timerVars, serviceVars, codecVars>>

\* variant: the loop is never left by its count
requests_done_never(sent) == FALSE

\* run(): (hello_sent++ >= request_count_), the test that ends the loop
requests_done(sent) == sent >= request_count_

\* run(): if (hello_sent++ >= request_count_) break; the lock on mutex_ is
\* given up when run() returns
run_next ==
    /\ rq_pc = "returned"
    /\ rq_pc' = IF requests_done(hello_sent) THEN "finished" ELSE "loop"
    /\ mutex_' = IF requests_done(hello_sent) THEN "free" ELSE mutex_
    /\ hello_sent' = hello_sent + 1
    /\ UNCHANGED <<running_, hello_req_, hello_req_id_, hello_resp_,
                   request_mutex_, handlers_, req_id, hello_reqest, ret,
                   ret_kind, session, stop_pc, requests, replies, matched,
                   last_reply, resolved, replaced>>
    /\ UNCHANGED <<initialized_, is_available_, request_count_, init_pc,
                   stop_before_ready>>
    /\ UNCHANGED <<timerVars, serviceVars, codecVars>>

(***************************************************************************)
(* hello_client: reply handler and stop()                                  *)
(***************************************************************************)
\* the HelloResponse on_hello_reply() decodes from reply r
decoded_response(r) ==
    IF r.rc = E_OK
    THEN deserialize_hello_response(r.payload).reply
    ELSE <<>>

\* variant: every reply is taken, whatever id it carries
reply_matches_any(r) == TRUE

\* does on_hello_reply() take reply r for the active request
reply_matches(r) == hello_req_id_ = r.id

\* variant: the slot keeps the id after the match
id_after_match_kept(id) == id

\* on_hello_reply(): hello_req_id_ = 0 once the reply with this id matched
id_after_match(id) == 0

\* on_hello_reply() under request_mutex_; the transport may deliver r again
on_hello_reply(r, again) ==
    /\ r \in replies
    /\ handlers_
    /\ request_mutex_ = "free"
    /\ replies' = IF again THEN replies ELSE replies \ {r}
    /\ IF reply_matches(r)
       THEN /\ hello_resp_' = decoded_response(r)
            /\ hello_req_id_' = id_after_match(r.id)
            /\ rq_pc' = request_condition_notify_one(rq_pc)
            /\ matched' = IF rq_pc \in {"waiting", "woken", "expired"}
                          THEN <<[reply |-> decoded_response(r), at |-> rq_pc]>>
                          ELSE matched
            /\ last_reply' = [id |-> r.id, outcome |-> "match"]
            /\ resolved' = resolved \cup {r.id}
       ELSE /\ UNCHANGED <<hello_resp_, hello_req_id_, rq_pc, matched,
                           resolved>>
            /\ last_reply' = [id |-> r.id, outcome |-> "stray"]
    /\ UNCHANGED <<running_, hello_req_, request_mutex_, handlers_,
                   hello_sent, req_id, hello_reqest, ret, ret_kind, session,
                   stop_pc, requests, replaced>>
    /\ UNCHANGED <<startVars, timerVars, serviceVars, codecVars>>

\* stop(): running_ = false
stop_flag ==
    /\ stop_pc = "idle"
    /\ running_' = FALSE
    /\ stop_pc' = "flag"
    /\ stop_before_ready' = ~(init_pc = "done" /\ is_available_)
    /\ UNCHANGED <<hello_req_, hello_req_id_, hello_resp_, request_mutex_,
                   handlers_, rq_pc, hello_sent, req_id, hello_reqest, ret,
                   ret_kind, session, requests, replies, matched,
                   last_reply, resolved, replaced>>
    /\ UNCHANGED <<initialized_, is_available_, request_count_, mutex_,
                   init_pc>>
    /\ UNCHANGED <<timerVars, serviceVars, codecVars>>

\* stop(): initialized_ = true, condition_.notify_one() and
\* request_condition_.notify_one()
stop_notify ==
    /\ stop_pc = "flag"
    /\ initialized_' = TRUE
    /\ rq_pc' = request_condition_notify_one(condition_notify_one(rq_pc))
    /\ stop_pc' = "notified"
    /\ UNCHANGED <<running_, hello_req_, hello_req_id_, hello_resp_,
                   request_mutex_, handlers_, hello_sent, req_id,
                   hello_reqest, ret, ret_kind, session, requests, replies,
                   matched, last_reply, resolved, replaced>>
    /\ UNCHANGED <<is_available_, request_count_, mutex_, init_pc,
                   stop_before_ready>>
    /\ UNCHANGED <<timerVars, serviceVars, codecVars>>

\* stop(): app_->clear_all_handler()
stop_clear ==
    /\ stop_pc = "notified"
    /\ handlers_' = FALSE
    /\ stop_pc' = "cleared"
    /\ UNCHANGED <<running_, hello_req_, hello_req_id_, hello_resp_,
                   request_mutex_, rq_pc, hello_sent, req_id, hello_reqest,
                   ret, ret_kind, session, requests, replies, matched,
                   last_reply, resolved, replaced>>
    /\ UNCHANGED <<startVars, timerVars, serviceVars, codecVars>>

(***************************************************************************)
(* Timer                                                                   *)
(***************************************************************************)
\* TimerID of the timers hello_service enables by default
Timer_1sec == 0
Timer_1min == 1
Timer_10ms == 8
Timer_1ms == 9
\* enum TimerID
TimerIDs == {Timer_1sec, Timer_1min, Timer_10ms, Timer_1ms}
Timers == {Timer_1sec, Timer_1min}

\* add_timer(): th_name = "timer_" + std::to_string(timer_id)
th_name(t) == IF t = Timer_1sec THEN "timer_0" ELSE "timer_1"

\* interval (ms) hello_service::notify_th gives add_timer for each timer
timer_interval(t) == IF t = Timer_1sec THEN 1000 ELSE 60 * 1000

\* timer_thread(): default_interval = interval * 1000L, in us
default_interval(t) == timer_interval(t) * 1000

\* durations (us) a callback may be measured to have taken
ElapsedTimes(t) ==
    {0, 1000, default_interval(t) - 1, default_interval(t),
     default_interval(t) + 1}

\* variant: no floor under the next wait
next_wait_us_no_floor(t, e) == default_interval(t) - e

\* timer_thread(): to_wait_us after a callback that took e us
next_wait_us(t, e) ==
    IF default_interval(t) - e < 1
    THEN 1
    ELSE default_interval(t) - e

\* cv_.notify_all(): every thread blocked in cv_.wait_for() is woken
cv_notify_all(pcs) ==
    [t \in Timers |-> IF pcs[t] = "waiting" THEN "woken" ELSE pcs[t]]

\* add_timer(): the thread of timer t starts timer_thread()
add_timer(t, rec) ==
    /\ t_pc[t] = "none"
    /\ dtor_pc = "idle"
    /\ t_pc' = [t_pc EXCEPT ![t] = "lock"]
    /\ recurring' = [recurring EXCEPT ![t] = rec]
    /\ to_wait_us' = [to_wait_us EXCEPT ![t] = default_interval(t)]
    /\ threads_' = Append(threads_, t)
    /\ UNCHANGED <<is_running_, mtx_, stt_pc, cb_started, cb_returned,
                   wait_elapsed>>
    /\ UNCHANGED <<elapsed, dtor_pc, dtor_by, dtor_i, joined, detached>>
    /\ UNCHANGED <<clientVars, serviceVars, codecVars>>

\* timer_thread(): std::unique_lock<std::mutex> lock(mtx_)
timer_lock(t) ==
    /\ t_pc[t] = "lock"
    /\ mtx_ = {}
    /\ mtx_' = {t}
    /\ t_pc' = [t_pc EXCEPT ![t] = "pred"]
    /\ UNCHANGED <<is_running_, recurring, to_wait_us, stt_pc, cb_started,
                   cb_returned, wait_elapsed>>
    /\ UNCHANGED <<elapsed, dtorVars>>
    /\ UNCHANGED <<clientVars, serviceVars, codecVars>>

\* variant: the wait is skipped when the predicate is false
after_pred_false_skips_wait(t) == "check"

\* where wait_for() goes after its predicate returned false
after_pred_false(t) == "block"

\* wait_for(): evaluate the predicate !is_running_ under mtx_;
\* true: wait_for() returns true and the loop is left (mtx_ unlocked)
timer_pred(t) ==
    /\ t_pc[t] = "pred"
    /\ IF ~is_running_
       THEN /\ t_pc' = [t_pc EXCEPT ![t] = "done"]
            /\ mtx_' = {}
       ELSE /\ t_pc' = [t_pc EXCEPT ![t] = after_pred_false(t)]
            /\ UNCHANGED mtx_
    /\ UNCHANGED <<is_running_, recurring, to_wait_us, stt_pc, cb_started,
                   cb_returned, wait_elapsed>>
    /\ UNCHANGED <<elapsed, dtorVars>>
    /\ UNCHANGED <<clientVars, serviceVars, codecVars>>

\* wait_for(): unlock mtx_ and block on cv_
timer_block(t) ==
    /\ t_pc[t] = "block"
    /\ t_pc' = [t_pc EXCEPT ![t] = "waiting"]
    /\ mtx_' = {}
    /\ UNCHANGED <<is_running_, recurring, to_wait_us, stt_pc, cb_started,
                   cb_returned, wait_elapsed>>
    /\ UNCHANGED <<elapsed, dtorVars>>
    /\ UNCHANGED <<clientVars, serviceVars, codecVars>>

\* variant: the wait has no time limit
wait_for_never_times_out(us) == FALSE

\* cv_.wait_for(lock, microseconds(to_wait_us), ...): the wait is limited
\* to to_wait_us, which is at least 1
wait_for_times_out(us) == us >= 1

\* to_wait_us run out before the wait has returned
timer_expire(t) ==
    /\ t_pc[t] \in {"waiting", "woken"}
    /\ wait_for_times_out(to_wait_us[t])
    /\ t_pc' = [t_pc EXCEPT ![t] = "expired"]
    /\ UNCHANGED <<is_running_, mtx_, recurring, to_wait_us, stt_pc,
                   cb_started, cb_returned, wait_elapsed>>
    /\ UNCHANGED <<elapsed, dtorVars>>
    /\ UNCHANGED <<clientVars, serviceVars, codecVars>>

\* a blocked thread may wake without a notification
timer_spurious_wake(t) ==
    /\ t_pc[t] = "waiting"
    /\ t_pc' = [t_pc EXCEPT ![t] = "woken"]
    /\ UNCHANGED <<is_running_, mtx_, recurring, to_wait_us, stt_pc,
                   cb_started, cb_returned, wait_elapsed>>
    /\ UNCHANGED <<elapsed, dtorVars>>
    /\ UNCHANGED <<clientVars, serviceVars, codecVars>>

\* the wait relocks mtx_: woken, wait_for() evaluates the predicate again;
\* timed out, wait_for() returns what the predicate gives
timer_relock(t) ==
    /\ t_pc[t] \in {"woken", "expired"}
    /\ mtx_ = {}
    /\ IF t_pc[t] = "woken"
       THEN /\ t_pc' = [t_pc EXCEPT ![t] = "pred"]
            /\ mtx_' = {t}
            /\ UNCHANGED wait_elapsed
       ELSE IF ~is_running_
       THEN /\ t_pc' = [t_pc EXCEPT ![t] = "done"]
            /\ mtx_' = {}
            /\ UNCHANGED wait_elapsed
       ELSE /\ t_pc' = [t_pc EXCEPT ![t] = "check"]
            /\ mtx_' = {t}
            /\ wait_elapsed' = [wait_elapsed EXCEPT ![t] = TRUE]
    /\ UNCHANGED <<is_running_, recurring, to_wait_us, stt_pc, cb_started,
                   cb_returned>>
    /\ UNCHANGED <<elapsed, dtorVars>>
    /\ UNCHANGED <<clientVars, serviceVars, codecVars>>

\* timer_thread(): if (!is_running_) break
timer_check(t) ==
    /\ t_pc[t] = "check"
    /\ IF ~is_running_
       THEN /\ t_pc' = [t_pc EXCEPT ![t] = "done"]
            /\ mtx_' = {}
       ELSE /\ t_pc' = [t_pc EXCEPT ![t] = "invoke"]
            /\ UNCHANGED mtx_
    /\ UNCHANGED <<is_running_, recurring, to_wait_us, stt_pc, cb_started,
                   cb_returned, wait_elapsed>>
    /\ UNCHANGED <<elapsed, dtorVars>>
    /\ UNCHANGED <<clientVars, serviceVars, codecVars>>

\* timer_thread(): callback(timer_id) is entered (mtx_ still held)
timer_callback(t) ==
    /\ t_pc[t] = "invoke"
    /\ cb_started[t] < MaxFirings
    /\ t_pc' = [t_pc EXCEPT ![t] = "cb"]
    /\ cb_started' = [cb_started EXCEPT ![t] = @ + 1]
    /\ wait_elapsed' = [wait_elapsed EXCEPT ![t] = FALSE]
    /\ UNCHANGED <<is_running_, mtx_, recurring, to_wait_us, stt_pc,
                   cb_returned>>
    /\ UNCHANGED <<elapsed, dtorVars>>
    /\ UNCHANGED <<clientVars, serviceVars, codecVars>>

\* variant: the loop goes round whatever recurring says
after_callback_always_again(rec) == "lock"

\* } while (recurring): where the thread goes after an iteration
after_callback(rec) == IF rec THEN "lock" ELSE "done"

\* the callback returns after e us; to_wait_us is recomputed, the
\* iteration ends (mtx_ unlocked) and while (recurring) is evaluated.
\* A thread that ran ~Timer() from its callback has no Timer to return to.
timer_callback_return(t, e) ==
    /\ t_pc[t] = "cb"
    /\ dtor_by # th_name(t)
    /\ cb_returned' = [cb_returned EXCEPT ![t] = @ + 1]
    /\ elapsed' = [elapsed EXCEPT ![t] = e]
    /\ to_wait_us' = [to_wait_us EXCEPT ![t] = next_wait_us(t, e)]
    /\ mtx_' = {}
    /\ t_pc' = [t_pc EXCEPT ![t] = after_callback(recurring[t])]
    /\ UNCHANGED <<is_running_, recurring, stt_pc, cb_started, wait_elapsed>>
    /\ UNCHANGED dtorVars
    /\ UNCHANGED <<clientVars, serviceVars, codecVars>>

\* an invocation beyond the MaxFirings counted ones: the callback is called
\* and returns, the iteration ends (mtx_ unlocked)
timer_callback_uncounted(t) ==
    /\ t_pc[t] = "invoke"
    /\ cb_started[t] = MaxFirings
    /\ mtx_' = {}
    /\ t_pc' = [t_pc EXCEPT ![t] = after_callback(recurring[t])]
    /\ UNCHANGED <<is_running_, recurring, to_wait_us, stt_pc, cb_started,
                   cb_returned, wait_elapsed>>
    /\ UNCHANGED <<elapsed, dtorVars>>
    /\ UNCHANGED <<clientVars, serviceVars, codecVars>>

\* callback(timer_id) throws: timer_thread() has no handler, the exception
\* leaves the thread's function and std::terminate() ends the process with
\* all its threads
timer_callback_throw(t) ==
    /\ t_pc[t] = "cb"
    /\ dtor_by # th_name(t)
    /\ t_pc' = [u \in Timers |-> "aborted"]
    /\ stt_pc' = "aborted"
    /\ dtor_pc' = "aborted"
    /\ UNCHANGED <<is_running_, mtx_, recurring, to_wait_us, cb_started,
                   cb_returned, wait_elapsed, elapsed>>
    /\ UNCHANGED <<threads_, dtor_by, dtor_i, joined, detached>>
    /\ UNCHANGED <<clientVars, serviceVars, codecVars>>

\* stop_timers(): is_running_ = false
stop_timers_flag ==
    /\ stt_pc = "idle"
    /\ dtor_pc = "idle"
    /\ is_running_' = FALSE
    /\ stt_pc' = "flag"
    /\ UNCHANGED <<mtx_, t_pc, recurring, to_wait_us, cb_started,
                   cb_returned, wait_elapsed>>
    /\ UNCHANGED <<elapsed, dtorVars>>
    /\ UNCHANGED <<clientVars, serviceVars, codecVars>>

\* stop_timers(): cv_.notify_all(), and stop_timers() returns
stop_timers_notify ==
    /\ stt_pc = "flag"
    /\ t_pc' = cv_notify_all(t_pc)
    /\ stt_pc' = "done"
    /\ UNCHANGED <<is_running_, mtx_, recurring, to_wait_us, cb_started,
                   cb_returned, wait_elapsed>>
    /\ UNCHANGED <<elapsed, dtorVars>>
    /\ UNCHANGED <<clientVars, serviceVars, codecVars>>

\* threads that may run ~Timer(): the owner of the Timer, or a timer
\* thread from inside its callback
DtorCallers == {"owner"} \cup {th_name(t) : t \in Timers}

\* ~Timer(): stop_timers() is entered, is_running_ = false
dtor_stop_timers_flag(c) ==
    /\ dtor_pc = "idle"
    /\ stt_pc \in {"idle", "done"}
    /\ \A t \in Timers : c = th_name(t) => t_pc[t] = "cb"
    /\ dtor_by' = c
    /\ is_running_' = FALSE
    /\ dtor_pc' = "flag"
    /\ UNCHANGED <<mtx_, t_pc, recurring, to_wait_us, stt_pc, cb_started,
                   cb_returned, wait_elapsed, elapsed>>
    /\ UNCHANGED <<threads_, dtor_i, joined, detached>>
    /\ UNCHANGED <<clientVars, serviceVars, codecVars>>

\* ~Timer(): stop_timers() does cv_.notify_all() and returns
dtor_stop_timers_notify ==
    /\ dtor_pc = "flag"
    /\ t_pc' = cv_notify_all(t_pc)
    /\ dtor_pc' = "loop"
    /\ dtor_i' = 1
    /\ UNCHANGED <<is_running_, mtx_, recurring, to_wait_us, stt_pc,
                   cb_started, cb_returned, wait_elapsed, elapsed>>
    /\ UNCHANGED <<threads_, dtor_by, joined, detached>>
    /\ UNCHANGED <<clientVars, serviceVars, codecVars>>

\* variant: every thread is joined, the caller's own too
is_self_never(by, th) == FALSE

\* ~Timer(): std::this_thread::get_id() == thread.get_id()
is_self(by, th) == by = th_name(th)

\* ~Timer(): one round of the loop over threads_: the caller's own thread
\* is detached, any other is joined, which returns once it has terminated
dtor_join ==
    /\ dtor_pc = "loop"
    /\ dtor_i <= Len(threads_)
    /\ LET th == threads_[dtor_i] IN
          IF is_self(dtor_by, th)
          THEN /\ detached' = detached \cup {th}
               /\ UNCHANGED joined
          ELSE /\ t_pc[th] = "done"
               /\ joined' = joined \cup {th}
               /\ UNCHANGED detached
    /\ dtor_i' = dtor_i + 1
    /\ UNCHANGED <<is_running_, mtx_, t_pc, recurring, to_wait_us, stt_pc,
                   cb_started, cb_returned, wait_elapsed, elapsed>>
    /\ UNCHANGED <<threads_, dtor_pc, dtor_by>>
    /\ UNCHANGED <<clientVars, serviceVars, codecVars>>

\* ~Timer(): threads_.clear(), and the destructor returns
dtor_clear ==
    /\ dtor_pc = "loop"
    /\ dtor_i > Len(threads_)
    /\ threads_' = <<>>
    /\ dtor_pc' = "done"
    /\ UNCHANGED <<is_running_, mtx_, t_pc, recurring, to_wait_us, stt_pc,
                   cb_started, cb_returned, wait_elapsed, elapsed>>
    /\ UNCHANGED <<dtor_by, dtor_i, joined, detached>>
    /\ UNCHANGED <<clientVars, serviceVars, codecVars>>

(***************************************************************************)
(* hello_service: subscriptions, offering, and the gate in notify_event    *)
(***************************************************************************)
\* serialize_hello_event(): hours, minutes, seconds, nanos and the timer id
serialize_hello_event(event) ==
    serialize_int32(event.hours) \o serialize_int32(event.minutes)
        \o serialize_int32(event.seconds) \o serialize_int32(event.nanos)
        \o << event.timer_id % 256 >>

HELLO_EVENT_PAYLOAD_SIZE == 17

\* deserialize_hello_event(): false with the event left alone if
\* (size < HELLO_EVENT_PAYLOAD_SIZE); else four deserialize_int32() calls,
\* timer_id = data[index++], and the result is (index == 17)
deserialize_hello_event(event, payload) ==
    IF Len(payload) < HELLO_EVENT_PAYLOAD_SIZE
    THEN [ok |-> FALSE, event |-> event]
    ELSE LET h == deserialize_int32(payload, 0)
             m == deserialize_int32(payload, h.index)
             sec == deserialize_int32(payload, m.index)
             n == deserialize_int32(payload, sec.index)
         IN  [ok |-> n.index + 1 = HELLO_EVENT_PAYLOAD_SIZE,
              event |-> [hours |-> h.value, minutes |-> m.value,
                         seconds |-> sec.value, nanos |-> n.value,
                         timer_id |-> payload[n.index + 1]]]

\* times of day set_hello_event() may give an event
TimesOfDay ==
    { [hours |-> 0, minutes |-> 0, seconds |-> 0, nanos |-> 0],
      [hours |-> 23, minutes |-> 59, seconds |-> 59, nanos |-> 999999999] }

\* the event a timer's callback hands notify_event()
hello_event(t, tod) ==
    [hours |-> tod.hours, minutes |-> tod.minutes, seconds |-> tod.seconds,
     nanos |-> tod.nanos, timer_id |-> t]

\* variant: unsubscribe requests are counted as well
sub_count_after_any(cnt, is_subscribed) == cnt + 1

\* on_subscription_cb(): if (_is_subscribed) ++sub_count
sub_count_after(cnt, is_subscribed) ==
    IF is_subscribed THEN cnt + 1 ELSE cnt

\* on_subscription_cb(): sub_ack, from the sub_count already incremented
sub_ack_of(cnt, is_subscribed) ==
    IF toggle_ack /\ is_subscribed THEN cnt % 2 = 1 ELSE TRUE

\* variant: only acknowledged subscriptions are counted
subscribe_count_after_acked(cnt, is_subscribed, sub_ack) ==
    IF is_subscribed
    THEN (IF sub_ack THEN cnt + 1 ELSE cnt)
    ELSE cnt - 1

\* on_subscription_cb(): subscribe_count_++ or subscribe_count_--
subscribe_count_after(cnt, is_subscribed, sub_ack) ==
    IF is_subscribed THEN cnt + 1 ELSE cnt - 1

\* on_subscription_cb(), called by the dispatcher for a subscribe
\* (_is_subscribed) or an unsubscribe notification
on_subscription_cb(is_subscribed) ==
    /\ sub_handlers_
    /\ Len(sub_log) < MaxSubs
    /\ LET cnt == sub_count_after(sub_count, is_subscribed)
           sub_ack == sub_ack_of(cnt, is_subscribed)
       IN /\ sub_count' = cnt
          /\ subscribe_count_' =
                 subscribe_count_after(subscribe_count_, is_subscribed, sub_ack)
          /\ sub_log' = Append(sub_log, <<is_subscribed, sub_ack>>)
    /\ UNCHANGED <<is_offered_, service_running_, toggle_ack, toggle_offer,
                   sub_handlers_, offer_pc, is_offer, service_stop_pc,
                   ne_pc, ne_event, ne_ret, notified>>
    /\ UNCHANGED <<clientVars, timerVars, toggle_hist, codecVars>>
    /\ UNCHANGED shutdownVars

\* condition_.notify_one() / notify_all(): the offer thread, if waiting
service_condition_notify(pc) == IF pc = "gate_wait" THEN "gate_woken" ELSE pc

\* notify_condition_.notify_one() / notify_all(): the notify thread, if waiting
notify_condition_notify(pc) == IF pc = "waiting" THEN "woken" ELSE pc

\* init() under mutex_: a failed app_->init() returns false; else the
\* handlers are registered, blocked_ = true, condition_.notify_one()
service_init(app_init_ok) ==
    /\ service_init_pc = "idle"
    /\ service_mutex_ = "free"
    /\ IF app_init_ok
       THEN /\ service_init_pc' = "done"
            /\ sub_handlers_' = TRUE
            /\ blocked_' = TRUE
            /\ offer_pc' = service_condition_notify(offer_pc)
       ELSE /\ service_init_pc' = "failed"
            /\ UNCHANGED <<sub_handlers_, blocked_, offer_pc>>
    /\ UNCHANGED <<is_offered_, service_running_, subscribe_count_, sub_count,
                   toggle_ack, toggle_offer, is_offer, service_stop_pc,
                   ne_pc, ne_event, ne_ret, notified, sub_log>>
    /\ UNCHANGED <<shutdown_requested_, shutdown_mutex_, shutdown_pc,
                   service_mutex_, notify_mutex_, notify_pc>>
    /\ UNCHANGED <<clientVars, timerVars, toggle_hist, codecVars>>

\* what the steps of the shutdown thread leave alone
shutdownUnchanged ==
    /\ UNCHANGED <<is_offered_, service_running_, subscribe_count_, sub_count,
                   toggle_ack, toggle_offer, sub_handlers_, offer_pc,
                   is_offer, service_stop_pc, ne_pc, ne_event, ne_ret,
                   notified, sub_log>>
    /\ UNCHANGED <<blocked_, service_mutex_, service_init_pc, notify_mutex_,
                   notify_pc>>
    /\ UNCHANGED <<clientVars, timerVars, toggle_hist, codecVars>>

\* shutdown_request(), the first one: under shutdown_mutex_,
\* shutdown_requested_ = true and shutdown_condition_.notify_one()
shutdown_request ==
    /\ ~shutdown_requested_
    /\ shutdown_mutex_ = "free"
    /\ shutdown_requested_' = TRUE
    /\ shutdown_pc' = IF shutdown_pc = "waiting" THEN "woken" ELSE shutdown_pc
    /\ UNCHANGED shutdown_mutex_
    /\ shutdownUnchanged

\* shutdown_th(): std::unique_lock its_lock(shutdown_mutex_)
shutdown_th_lock ==
    /\ shutdown_pc = "start"
    /\ shutdown_mutex_ = "free"
    /\ shutdown_mutex_' = "shutdown_thread"
    /\ shutdown_pc' = "test"
    /\ UNCHANGED shutdown_requested_
    /\ shutdownUnchanged

\* shutdown_th(): while (!shutdown_requested_), then stop()
shutdown_th_test ==
    /\ shutdown_pc = "test"
    /\ shutdown_pc' = IF shutdown_requested_ THEN "stop" ELSE "block"
    /\ UNCHANGED <<shutdown_requested_, shutdown_mutex_>>
    /\ shutdownUnchanged

\* shutdown_th(): shutdown_condition_.wait(its_lock) unlocks and blocks
shutdown_th_wait ==
    /\ shutdown_pc = "block"
    /\ shutdown_mutex_' = "free"
    /\ shutdown_pc' = "waiting"
    /\ UNCHANGED shutdown_requested_
    /\ shutdownUnchanged

\* shutdown_th(): the notified wait locks shutdown_mutex_ again and returns
shutdown_th_relock ==
    /\ shutdown_pc = "woken"
    /\ shutdown_mutex_ = "free"
    /\ shutdown_mutex_' = "shutdown_thread"
    /\ shutdown_pc' = "test"
    /\ UNCHANGED shutdown_requested_
    /\ shutdownUnchanged

\* shutdown_th(): stop() has returned, the thread ends
shutdown_th_done ==
    /\ shutdown_pc = "stop"
    /\ service_stop_pc = "returned"
    /\ shutdown_mutex_' = "free"
    /\ shutdown_pc' = "done"
    /\ UNCHANGED shutdown_requested_
    /\ shutdownUnchanged

\* what the offer thread's steps before offer() leave alone
offerGateUnchanged ==
    /\ UNCHANGED <<is_offered_, service_running_, subscribe_count_, sub_count,
                   toggle_ack, toggle_offer, sub_handlers_, is_offer,
                   service_stop_pc, ne_pc, ne_event, ne_ret, notified,
                   sub_log>>
    /\ UNCHANGED <<blocked_, shutdown_requested_, shutdown_mutex_,
                   shutdown_pc, service_init_pc, notify_mutex_, notify_pc>>
    /\ UNCHANGED <<clientVars, timerVars, toggle_hist, codecVars>>

\* offer_th(): std::unique_lock its_lock(mutex_)
offer_th_lock ==
    /\ offer_pc = "lock"
    /\ service_mutex_ = "free"
    /\ service_mutex_' = "offer_thread"
    /\ offer_pc' = "gate"
    /\ offerGateUnchanged

\* offer_th(): while (running_ && !blocked_)
offer_th_gate ==
    /\ offer_pc = "gate"
    /\ offer_pc' = IF service_running_ /\ ~blocked_ THEN "gate_block"
                   ELSE "start"
    /\ UNCHANGED service_mutex_
    /\ offerGateUnchanged

\* offer_th(): condition_.wait(its_lock) unlocks mutex_ and blocks
offer_th_wait ==
    /\ offer_pc = "gate_block"
    /\ service_mutex_' = "free"
    /\ offer_pc' = "gate_wait"
    /\ offerGateUnchanged

\* condition_.wait() may wake without a notification
offer_th_spurious_wake ==
    /\ offer_pc = "gate_wait"
    /\ offer_pc' = "gate_woken"
    /\ UNCHANGED service_mutex_
    /\ offerGateUnchanged

\* condition_.wait() locks mutex_ again and returns
offer_th_relock ==
    /\ offer_pc = "gate_woken"
    /\ service_mutex_ = "free"
    /\ service_mutex_' = "offer_thread"
    /\ offer_pc' = "gate"
    /\ offerGateUnchanged

\* offer_th(): past the wait for init(); without TOGGLE_OFFER it calls
\* offer() once and returns, whatever running_ is
offer_th_start ==
    /\ offer_pc = "start"
    /\ IF toggle_offer
       THEN /\ offer_pc' = "loop"
            /\ UNCHANGED <<is_offered_, service_mutex_, notify_pc>>
       ELSE /\ notify_mutex_ = "free"
            /\ offer_pc' = "done"
            /\ is_offered_' = TRUE
            /\ notify_pc' = notify_condition_notify(notify_pc)
            /\ service_mutex_' = "free"
    /\ UNCHANGED <<service_running_, subscribe_count_, sub_count, toggle_ack,
                   toggle_offer, sub_handlers_, is_offer, service_stop_pc,
                   ne_pc, ne_event, ne_ret, notified, sub_log>>
    /\ UNCHANGED <<blocked_, shutdown_requested_, shutdown_mutex_,
                   shutdown_pc, service_init_pc, notify_mutex_>>
    /\ UNCHANGED <<clientVars, timerVars, toggle_hist, codecVars>>

\* offer_th(): while (running_)
offer_th_loop ==
    /\ offer_pc = "loop"
    /\ offer_pc' = IF service_running_ THEN "act" ELSE "done"
    /\ service_mutex_' = IF service_running_ THEN service_mutex_ ELSE "free"
    /\ UNCHANGED <<is_offered_, service_running_, subscribe_count_, sub_count,
                   toggle_ack, toggle_offer, sub_handlers_, is_offer,
                   service_stop_pc, ne_pc, ne_event, ne_ret, notified,
                   sub_log>>
    /\ UNCHANGED <<blocked_, shutdown_requested_, shutdown_mutex_,
                   shutdown_pc, service_init_pc, notify_mutex_, notify_pc>>
    /\ UNCHANGED <<clientVars, timerVars, toggle_hist, codecVars>>

\* offer_th(): offer() or stop_offer(), the sleep, and is_offer = !is_offer
offer_th_act ==
    /\ offer_pc = "act"
    /\ is_offer => notify_mutex_ = "free"
    /\ is_offered_' = is_offer
    /\ notify_pc' = IF is_offer THEN notify_condition_notify(notify_pc)
                    ELSE notify_pc
    /\ is_offer' = ~is_offer
    /\ offer_pc' = "loop"
    /\ toggle_hist' =
           IF ~is_offer /\ subscribe_count_ > 0 THEN "off"
           ELSE IF is_offer /\ toggle_hist = "off" THEN "on"
           ELSE toggle_hist
    /\ UNCHANGED <<service_running_, subscribe_count_, sub_count, toggle_ack,
                   toggle_offer, sub_handlers_, service_stop_pc, ne_pc,
                   ne_event, ne_ret, notified, sub_log>>
    /\ UNCHANGED <<blocked_, shutdown_requested_, shutdown_mutex_,
                   shutdown_pc, service_mutex_, service_init_pc,
                   notify_mutex_>>
    /\ UNCHANGED <<clientVars, timerVars, codecVars>>

\* stop(), called by the shutdown thread: running_ = false, blocked_ = true
service_stop_flag ==
    /\ shutdown_pc = "stop"
    /\ service_stop_pc = "idle"
    /\ service_running_' = FALSE
    /\ blocked_' = TRUE
    /\ service_stop_pc' = "flag"
    /\ UNCHANGED <<is_offered_, subscribe_count_, sub_count, toggle_ack,
                   toggle_offer, sub_handlers_, offer_pc, is_offer, ne_pc,
                   ne_event, ne_ret, notified, sub_log>>
    /\ UNCHANGED <<shutdown_requested_, shutdown_mutex_, shutdown_pc,
                   service_mutex_, service_init_pc, notify_mutex_, notify_pc>>
    /\ UNCHANGED <<clientVars, timerVars, toggle_hist, codecVars>>

\* stop(): condition_.notify_all(), notify_condition_.notify_all(),
\* unregister_handlers() and app_->clear_all_handler()
service_stop_unregister ==
    /\ service_stop_pc = "flag"
    /\ offer_pc' = service_condition_notify(offer_pc)
    /\ notify_pc' = notify_condition_notify(notify_pc)
    /\ sub_handlers_' = FALSE
    /\ service_stop_pc' = "unregistered"
    /\ UNCHANGED <<is_offered_, service_running_, subscribe_count_, sub_count,
                   toggle_ack, toggle_offer, is_offer, ne_pc,
                   ne_event, ne_ret, notified, sub_log>>
    /\ UNCHANGED <<blocked_, shutdown_requested_, shutdown_mutex_,
                   shutdown_pc, service_mutex_, service_init_pc,
                   notify_mutex_>>
    /\ UNCHANGED <<clientVars, timerVars, toggle_hist, codecVars>>

\* stop(): stop_offer() sets is_offered_ = false
service_stop_offer ==
    /\ service_stop_pc = "unregistered"
    /\ is_offered_' = FALSE
    /\ service_stop_pc' = "stopped"
    /\ UNCHANGED <<service_running_, subscribe_count_, sub_count, toggle_ack,
                   toggle_offer, sub_handlers_, offer_pc, is_offer, ne_pc,
                   ne_event, ne_ret, notified, sub_log>>
    /\ UNCHANGED <<clientVars, timerVars, toggle_hist, codecVars>>
    /\ UNCHANGED shutdownVars

\* what the last steps of stop() leave alone
stopJoinUnchanged ==
    /\ UNCHANGED <<is_offered_, service_running_, subscribe_count_, sub_count,
                   toggle_ack, toggle_offer, sub_handlers_, offer_pc,
                   is_offer, ne_pc, ne_event, ne_ret, notified, sub_log>>
    /\ UNCHANGED shutdownVars
    /\ UNCHANGED <<clientVars, toggle_hist, codecVars>>

\* stop(): timer_.stop_timers() clears is_running_ and notifies the timer
\* threads
service_stop_timers ==
    /\ service_stop_pc = "stopped"
    /\ is_running_' = FALSE
    /\ t_pc' = cv_notify_all(t_pc)
    /\ stt_pc' = "done"
    /\ service_stop_pc' = "timers_stopped"
    /\ UNCHANGED <<mtx_, recurring, to_wait_us, cb_started, cb_returned,
                   wait_elapsed, elapsed, dtorVars>>
    /\ stopJoinUnchanged

\* stop(): offer_thread_.join() returns once offer_th() has returned
service_stop_join_offer ==
    /\ service_stop_pc = "timers_stopped"
    /\ offer_pc = "done"
    /\ service_stop_pc' = "offer_joined"
    /\ UNCHANGED timerVars
    /\ stopJoinUnchanged

\* stop(): notify_thread_.join() returns once notify_th() has returned,
\* then app_->stop() and stop() returns
service_stop_join_notify ==
    /\ service_stop_pc = "offer_joined"
    /\ notify_pc = "done"
    /\ service_stop_pc' = "returned"
    /\ UNCHANGED timerVars
    /\ stopJoinUnchanged

\* what the notify thread's steps in its loop leave alone
notifyUnchanged ==
    /\ UNCHANGED <<is_offered_, service_running_, subscribe_count_, sub_count,
                   toggle_ack, toggle_offer, sub_handlers_, offer_pc,
                   is_offer, service_stop_pc, ne_pc, ne_event, ne_ret,
                   notified, sub_log>>
    /\ UNCHANGED <<blocked_, shutdown_requested_, shutdown_mutex_,
                   shutdown_pc, service_mutex_, service_init_pc>>
    /\ UNCHANGED <<clientVars, toggle_hist, codecVars>>

\* notify_th(): timer_.add_timer(callback, Timer_1sec or Timer_1min,
\* interval, true), the callback referring to the event object of notify_th
notify_th_add_timer(t) ==
    /\ notify_pc = "start"
    /\ t_pc[t] = "none"
    /\ t = Timer_1min => t_pc[Timer_1sec] # "none"
    /\ t_pc' = [t_pc EXCEPT ![t] = "lock"]
    /\ recurring' = [recurring EXCEPT ![t] = TRUE]
    /\ to_wait_us' = [to_wait_us EXCEPT ![t] = default_interval(t)]
    /\ threads_' = Append(threads_, t)
    /\ UNCHANGED <<is_running_, mtx_, stt_pc, cb_started, cb_returned,
                   wait_elapsed>>
    /\ UNCHANGED <<elapsed, dtor_pc, dtor_by, dtor_i, joined, detached>>
    /\ UNCHANGED <<notify_mutex_, notify_pc>>
    /\ notifyUnchanged

\* notify_th(): while (running_), first after the timers are added; the
\* thread returns when running_ is cleared
notify_th_loop ==
    /\ \/ notify_pc = "loop"
       \/ notify_pc = "start" /\ \A t \in Timers : t_pc[t] # "none"
    /\ notify_pc' = IF service_running_ THEN "lock" ELSE "done"
    /\ UNCHANGED <<notify_mutex_, timerVars>>
    /\ notifyUnchanged

\* notify_th(): std::unique_lock its_lock(notify_mutex_)
notify_th_lock ==
    /\ notify_pc = "lock"
    /\ notify_mutex_ = "free"
    /\ notify_mutex_' = "notify_thread"
    /\ notify_pc' = "test"
    /\ UNCHANGED timerVars
    /\ notifyUnchanged

\* notify_th(): while (!is_offered_ && running_)
notify_th_test ==
    /\ notify_pc = "test"
    /\ notify_pc' = IF ~is_offered_ /\ service_running_ THEN "block"
                    ELSE "sleep"
    /\ UNCHANGED <<notify_mutex_, timerVars>>
    /\ notifyUnchanged

\* notify_th(): notify_condition_.wait(its_lock) unlocks and blocks
notify_th_wait ==
    /\ notify_pc = "block"
    /\ notify_mutex_' = "free"
    /\ notify_pc' = "waiting"
    /\ UNCHANGED timerVars
    /\ notifyUnchanged

\* notify_condition_.wait() may wake without a notification
notify_th_spurious_wake ==
    /\ notify_pc = "waiting"
    /\ notify_pc' = "woken"
    /\ UNCHANGED <<notify_mutex_, timerVars>>
    /\ notifyUnchanged

\* notify_condition_.wait() locks notify_mutex_ again and returns
notify_th_relock ==
    /\ notify_pc = "woken"
    /\ notify_mutex_ = "free"
    /\ notify_mutex_' = "notify_thread"
    /\ notify_pc' = "test"
    /\ UNCHANGED timerVars
    /\ notifyUnchanged

\* notify_th(): while (is_offered_ && running_) sleep_for(1 s) is left,
\* its_lock goes out of scope
notify_th_sleep ==
    /\ notify_pc = "sleep"
    /\ ~(is_offered_ /\ service_running_)
    /\ notify_mutex_' = "free"
    /\ notify_pc' = "loop"
    /\ UNCHANGED timerVars
    /\ notifyUnchanged

\* a timer's callback sets its event and calls notify_event(event); the
\* callbacks run one at a time, under Timer::mtx_
notify_event_call(t, tod) ==
    /\ ne_pc = "idle"
    /\ Len(notified) < MaxEvents
    /\ ne_event' = hello_event(t, tod)
    /\ ne_pc' = "offered"
    /\ ne_ret' = "none"
    /\ UNCHANGED <<is_offered_, service_running_, subscribe_count_, sub_count,
                   toggle_ack, toggle_offer, sub_handlers_, offer_pc,
                   is_offer, service_stop_pc, notified, sub_log>>
    /\ UNCHANGED <<clientVars, timerVars, toggle_hist, codecVars>>
    /\ UNCHANGED shutdownVars

\* variant: the offered state is not looked at
not_offered_ignored(offered) == FALSE

\* notify_event(): !is_offered_
not_offered(offered) == ~offered

\* notify_event(): if (!is_offered_ ...) return true
notify_event_offered ==
    /\ ne_pc = "offered"
    /\ IF not_offered(is_offered_)
       THEN ne_pc' = "idle" /\ ne_ret' = "true"
       ELSE ne_pc' = "running" /\ UNCHANGED ne_ret
    /\ UNCHANGED <<is_offered_, service_running_, subscribe_count_, sub_count,
                   toggle_ack, toggle_offer, sub_handlers_, offer_pc,
                   is_offer, service_stop_pc, ne_event, notified, sub_log>>
    /\ UNCHANGED <<clientVars, timerVars, toggle_hist, codecVars>>
    /\ UNCHANGED shutdownVars

\* notify_event(): if (... || !running_) return true
notify_event_running ==
    /\ ne_pc = "running"
    /\ IF ~service_running_
       THEN ne_pc' = "idle" /\ ne_ret' = "true"
       ELSE ne_pc' = "count" /\ UNCHANGED ne_ret
    /\ UNCHANGED <<is_offered_, service_running_, subscribe_count_, sub_count,
                   toggle_ack, toggle_offer, sub_handlers_, offer_pc,
                   is_offer, service_stop_pc, ne_event, notified, sub_log>>
    /\ UNCHANGED <<clientVars, timerVars, toggle_hist, codecVars>>
    /\ UNCHANGED shutdownVars

\* variant: only a negative count closes the gate
no_subscribers_negative(cnt) == cnt < 0

\* notify_event(): subscribe_count_ <= 0
no_subscribers(cnt) == cnt <= 0

\* notify_event(): if (subscribe_count_ <= 0) return true
notify_event_count ==
    /\ ne_pc = "count"
    /\ IF no_subscribers(subscribe_count_)
       THEN ne_pc' = "idle" /\ ne_ret' = "true"
       ELSE ne_pc' = "emit" /\ UNCHANGED ne_ret
    /\ UNCHANGED <<is_offered_, service_running_, subscribe_count_, sub_count,
                   toggle_ack, toggle_offer, sub_handlers_, offer_pc,
                   is_offer, service_stop_pc, ne_event, notified, sub_log>>
    /\ UNCHANGED <<clientVars, timerVars, toggle_hist, codecVars>>
    /\ UNCHANGED shutdownVars

\* notify_event(): serialize_hello_event(), app_->notify(), return true
notify_event_emit ==
    /\ ne_pc = "emit"
    /\ notified' = Append(notified, serialize_hello_event(ne_event))
    /\ ne_pc' = "idle"
    /\ ne_ret' = "true"
    /\ UNCHANGED <<is_offered_, service_running_, subscribe_count_, sub_count,
                   toggle_ack, toggle_offer, sub_handlers_, offer_pc,
                   is_offer, service_stop_pc, ne_event, sub_log>>
    /\ UNCHANGED <<clientVars, timerVars, toggle_hist, codecVars>>
    /\ UNCHANGED shutdownVars

(***************************************************************************)
(* hello_utils: the serialize and deserialize calls applied to a payload   *)
(***************************************************************************)
\* characters of the texts handed to the serialize calls ('\0' and 'W')
TextChars == {0, 87}

RECURSIVE TextsUpTo(_)
TextsUpTo(n) ==
    IF n = 0 THEN {<<>>}
    ELSE LET shorter == TextsUpTo(n - 1)
         IN  shorter \cup {Append(s, c) : s \in shorter, c \in TextChars}

Texts == TextsUpTo(MaxTextLen)

\* int32_t values of the fields of a TimeOfDay
Int32Values == {0, 59, -1, 2147483647, -2147483647 - 1}

Events ==
    [hours : Int32Values, minutes : Int32Values, seconds : Int32Values,
     nanos : Int32Values, timer_id : TimerIDs]

\* a HelloEvent of the caller before deserialize_hello_event() fills it
NoEvent ==
    [hours |-> 0, minutes |-> 0, seconds |-> 0, nanos |-> 0,
     timer_id |-> Timer_1sec]

\* length fields of the text payloads a peer may send
LengthFields == {-1, 0, 1, 2, 3, 4, 2147483647}

\* text payloads a peer may send: any of them cut short, too
TextPayloads ==
    LET whole == {serialize_int32(n) \o t \o z :
                      n \in LengthFields, t \in Texts, z \in {<<>>, <<0>>}}
    IN  UNION {{SubSeq(p, 1, k) : k \in 0..Len(p)} : p \in whole}

\* tag bytes of the event payloads a peer may send
TagBytes == {0, 1, 8, 9, 2, 255}

\* event payloads a peer may send, of 0 to 18 bytes
EventPayloads ==
    {[i \in 1..n |-> IF i = HELLO_EVENT_PAYLOAD_SIZE THEN tag ELSE fill] :
        n \in 0..(HELLO_EVENT_PAYLOAD_SIZE + 1), fill \in {0, 255},
        tag \in TagBytes}

\* what a caller can see of std::string(data + index, SIZE_MAX): the
\* std::length_error thrown, or a text read from there
UndefinedOutcomes ==
    {[ok |-> FALSE, thrown |-> TRUE, text |-> <<>>, event |-> NoEvent]}
        \cup {[ok |-> TRUE, thrown |-> FALSE, text |-> t, event |-> NoEvent] :
                 t \in Texts}

\* serialize_hello_request() fills the payload from a text
codec_serialize_request(s) ==
    /\ c_pc = "idle"
    /\ c_pc' = "encoded"
    /\ c_kind' = "request"
    /\ c_text' = s
    /\ c_payload' = serialize_hello_request(s)
    /\ UNCHANGED <<AUTOSAR_WIRE, c_event, c_out>>
    /\ UNCHANGED <<clientVars, timerVars, serviceVars>>

\* serialize_hello_response() fills the payload from a text
codec_serialize_response(s) ==
    /\ c_pc = "idle"
    /\ c_pc' = "encoded"
    /\ c_kind' = "response"
    /\ c_text' = s
    /\ c_payload' = serialize_hello_response(s)
    /\ UNCHANGED <<AUTOSAR_WIRE, c_event, c_out>>
    /\ UNCHANGED <<clientVars, timerVars, serviceVars>>

\* serialize_hello_event() fills the payload from an event
codec_serialize_event(e) ==
    /\ c_pc = "idle"
    /\ c_pc' = "encoded"
    /\ c_kind' = "event"
    /\ c_event' = e
    /\ c_payload' = serialize_hello_event(e)
    /\ UNCHANGED <<AUTOSAR_WIRE, c_text, c_out>>
    /\ UNCHANGED <<clientVars, timerVars, serviceVars>>

\* a payload arrives from a peer
codec_receive(kind, p) ==
    /\ c_pc = "idle"
    /\ c_pc' = "received"
    /\ c_kind' = kind
    /\ c_payload' = p
    /\ UNCHANGED <<AUTOSAR_WIRE, c_text, c_event, c_out>>
    /\ UNCHANGED <<clientVars, timerVars, serviceVars>>

after_deserialize(pc) == IF pc = "encoded" THEN "round_trip" ELSE "decoded"

\* deserialize_hello_request() applied to the payload
codec_deserialize_request ==
    /\ c_pc \in {"encoded", "received"}
    /\ c_kind = "request"
    /\ c_pc' = after_deserialize(c_pc)
    /\ LET r == deserialize_hello_request(c_payload)
       IN  IF r.undefined
           THEN c_out' \in UndefinedOutcomes
           ELSE c_out' = [ok |-> r.ok, thrown |-> FALSE, text |-> r.message,
                          event |-> NoEvent]
    /\ UNCHANGED <<AUTOSAR_WIRE, c_kind, c_text, c_event, c_payload>>
    /\ UNCHANGED <<clientVars, timerVars, serviceVars>>

\* deserialize_hello_response() applied to the payload
codec_deserialize_response ==
    /\ c_pc \in {"encoded", "received"}
    /\ c_kind = "response"
    /\ c_pc' = after_deserialize(c_pc)
    /\ LET r == deserialize_hello_response(c_payload)
       IN  c_out' = [ok |-> r.ok, thrown |-> FALSE, text |-> r.reply,
                     event |-> NoEvent]
    /\ UNCHANGED <<AUTOSAR_WIRE, c_kind, c_text, c_event, c_payload>>
    /\ UNCHANGED <<clientVars, timerVars, serviceVars>>

\* deserialize_hello_event() applied to the payload
codec_deserialize_event ==
    /\ c_pc \in {"encoded", "received"}
    /\ c_kind = "event"
    /\ c_pc' = after_deserialize(c_pc)
    /\ LET r == deserialize_hello_event(NoEvent, c_payload)
       IN  c_out' = [ok |-> r.ok, thrown |-> FALSE, text |-> <<>>,
                     event |-> r.event]
    /\ UNCHANGED <<AUTOSAR_WIRE, c_kind, c_text, c_event, c_payload>>
    /\ UNCHANGED <<clientVars, timerVars, serviceVars>>

\* the caller is done with the payload
codec_done ==
    /\ c_pc \in {"round_trip", "decoded"}
    /\ c_pc' = "idle"
    /\ c_kind' = "none"
    /\ c_text' = <<>>
    /\ c_event' = NoEvent
    /\ c_payload' = <<>>
    /\ c_out' = [ok |-> FALSE, thrown |-> FALSE, text |-> <<>>,
                 event |-> NoEvent]
    /\ UNCHANGED AUTOSAR_WIRE
    /\ UNCHANGED <<clientVars, timerVars, serviceVars>>

(***************************************************************************)
(* Specifications                                                          *)
(***************************************************************************)
\* the objects as their constructors leave them
Constructed ==
    /\ running_ = TRUE
    /\ hello_req_ \in Msgs
    /\ hello_req_id_ = 0
    /\ hello_resp_ = <<>>
    /\ request_mutex_ = "free"
    /\ handlers_ = FALSE
    /\ rq_pc = "start"
    /\ initialized_ = FALSE
    /\ is_available_ = FALSE
    /\ mutex_ = "free"
    /\ init_pc = "idle"
    /\ stop_before_ready = FALSE
    /\ hello_sent = 1
    /\ req_id = 0
    /\ hello_reqest = <<>>
    /\ ret = <<>>
    /\ ret_kind = "none"
    /\ session = 0
    /\ stop_pc = "idle"
    /\ requests = {}
    /\ replies = {}
    /\ matched = <<>>
    /\ last_reply = [id |-> 0, outcome |-> "none"]
    /\ resolved = {}
    /\ replaced = 0
    /\ is_running_ = TRUE
    /\ mtx_ = {}
    /\ t_pc = [t \in Timers |-> "none"]
    /\ recurring = [t \in Timers |-> FALSE]
    /\ to_wait_us = [t \in Timers |-> 0]
    /\ stt_pc = "idle"
    /\ cb_started = [t \in Timers |-> 0]
    /\ cb_returned = [t \in Timers |-> 0]
    /\ wait_elapsed = [t \in Timers |-> FALSE]
    /\ elapsed = [t \in Timers |-> 0]
    /\ threads_ = <<>>
    /\ dtor_pc = "idle"
    /\ dtor_by = "nobody"
    /\ dtor_i = 0
    /\ joined = {}
    /\ detached = {}
    /\ is_offered_ = FALSE
    /\ service_running_ = TRUE
    /\ subscribe_count_ = 0
    /\ sub_count = 0
    /\ is_offer = TRUE
    /\ service_stop_pc = "idle"
    /\ ne_pc = "idle"
    /\ ne_event = <<>>
    /\ ne_ret = "none"
    /\ notified = <<>>
    /\ sub_log = <<>>
    /\ toggle_hist = "none"
    /\ c_pc = "idle"
    /\ c_kind = "none"
    /\ c_text = <<>>
    /\ c_event = NoEvent
    /\ c_payload = <<>>
    /\ c_out = [ok |-> FALSE, thrown |-> FALSE, text |-> <<>>,
               event |-> NoEvent]

\* the service after init(): the handlers registered, the offer thread past
\* its wait for blocked_, the notify thread not yet run, and the shutdown
\* thread, told to shut down, about to call stop()
ServiceStarted ==
    /\ sub_handlers_ = TRUE
    /\ offer_pc = "start"
    /\ blocked_ = TRUE
    /\ service_init_pc = "done"
    /\ service_mutex_ = "offer_thread"
    /\ notify_mutex_ = "free"
    /\ notify_pc = "start"
    /\ shutdown_requested_ = TRUE
    /\ shutdown_mutex_ = "shutdown_thread"
    /\ shutdown_pc = "stop"

\* TOGGLE_ACK and TOGGLE_OFFER are not set in the environment
Init ==
    /\ Constructed
    /\ ServiceStarted
    /\ toggle_ack = FALSE
    /\ toggle_offer = FALSE
    /\ AUTOSAR_WIRE = FALSE
    /\ request_count_ = 0

\* the client constructed with a request count from 0 up
InitClient ==
    /\ Constructed
    /\ ServiceStarted
    /\ toggle_ack = FALSE
    /\ toggle_offer = FALSE
    /\ AUTOSAR_WIRE = FALSE
    /\ request_count_ \in 0..RequestCount

\* the client with its request thread, the service answering its requests
NextClient ==
    \/ \E app_init_ok \in BOOLEAN : init(app_init_ok)
    \/ \E is_available \in BOOLEAN : on_availability(is_available)
    \/ run_start
    \/ run_gate_lock
    \/ run_gate_running
    \/ run_gate_flags
    \/ run_gate_wait
    \/ gate_spurious_wake
    \/ run_gate_relock
    \/ run_loop
    \/ send_hello_begin
    \/ send_hello_check
    \/ send_hello_wait
    \/ wait_expire
    \/ spurious_wake
    \/ send_hello_return
    \/ run_next
    \/ \E q \in requests : on_message_cb(q)
    \/ \E r \in replies, again \in BOOLEAN : on_hello_reply(r, again)
    \/ stop_flag
    \/ stop_notify
    \/ stop_clear

SpecClient == InitClient /\ [][NextClient]_vars

\* the client receiving, besides the service's replies, replies it cannot
\* decode
NextClientPeer ==
    \/ NextClient
    \/ \E id \in 1..RequestCount : peer_reply(id)

SpecClientPeer == InitClient /\ [][NextClientPeer]_vars

\* the service handling the requests of other clients
NextRequests ==
    \/ \E q \in PeerRequests : peer_request(q)
    \/ \E q \in requests : on_message_cb(q)

SpecRequests == Init /\ [][NextRequests]_vars

\* the Timer object with its timer threads and a stop_timers() call
NextTimer ==
    \/ \E t \in Timers, rec \in BOOLEAN : add_timer(t, rec)
    \/ \E t \in Timers : timer_lock(t)
    \/ \E t \in Timers : timer_pred(t)
    \/ \E t \in Timers : timer_block(t)
    \/ \E t \in Timers : timer_expire(t)
    \/ \E t \in Timers : timer_spurious_wake(t)
    \/ \E t \in Timers : timer_relock(t)
    \/ \E t \in Timers : timer_check(t)
    \/ \E t \in Timers : timer_callback(t)
    \/ \E t \in Timers : \E e \in ElapsedTimes(t) : timer_callback_return(t, e)
    \/ stop_timers_flag
    \/ stop_timers_notify
    \/ \E c \in DtorCallers : dtor_stop_timers_flag(c)
    \/ dtor_stop_timers_notify
    \/ dtor_join
    \/ dtor_clear

SpecTimer == Init /\ [][NextTimer]_vars

\* the timer threads and a stop_timers() call, every thread that can take
\* a step taking it in the end, every wait_for() running out and every
\* callback returning
NextTimerLive ==
    \/ \E t \in Timers, rec \in BOOLEAN : add_timer(t, rec)
    \/ \E t \in Timers : timer_lock(t)
    \/ \E t \in Timers : timer_pred(t)
    \/ \E t \in Timers : timer_block(t)
    \/ \E t \in Timers : timer_expire(t)
    \/ \E t \in Timers : timer_spurious_wake(t)
    \/ \E t \in Timers : timer_relock(t)
    \/ \E t \in Timers : timer_check(t)
    \/ \E t \in Timers : timer_callback(t)
    \/ \E t \in Timers : timer_callback_return(t, 0)
    \/ \E t \in Timers : timer_callback_uncounted(t)
    \/ stop_timers_flag
    \/ stop_timers_notify

SpecTimerLive ==
    /\ Init
    /\ [][NextTimerLive]_vars
    /\ \A t \in Timers :
           /\ WF_vars(timer_lock(t))
           /\ WF_vars(timer_pred(t))
           /\ WF_vars(timer_block(t))
           /\ WF_vars(timer_expire(t))
           /\ WF_vars(timer_relock(t))
           /\ WF_vars(timer_check(t))
           /\ WF_vars(timer_callback(t))
           /\ WF_vars(timer_callback_return(t, 0))
           /\ WF_vars(timer_callback_uncounted(t))
    /\ WF_vars(stop_timers_notify)

\* the Timer object with callbacks that may throw
NextTimerThrow ==
    \/ NextTimer
    \/ \E t \in Timers : timer_callback_throw(t)

SpecTimerThrow == Init /\ [][NextTimerThrow]_vars

\* the service started with either setting of TOGGLE_ACK and TOGGLE_OFFER
InitService ==
    /\ Constructed
    /\ ServiceStarted
    /\ toggle_ack \in BOOLEAN
    /\ toggle_offer \in BOOLEAN
    /\ AUTOSAR_WIRE = FALSE
    /\ request_count_ = 0

\* hello_service: the dispatcher delivering subscription notifications,
\* offer_th(), stop(), and the timer callbacks calling notify_event()
NextService ==
    \/ \E is_subscribed \in BOOLEAN : on_subscription_cb(is_subscribed)
    \/ offer_th_start
    \/ offer_th_loop
    \/ offer_th_act
    \/ service_stop_flag
    \/ service_stop_unregister
    \/ service_stop_offer
    \/ \E t \in Timers, tod \in TimesOfDay : notify_event_call(t, tod)
    \/ notify_event_offered
    \/ notify_event_running
    \/ notify_event_count
    \/ notify_event_emit

SpecService == InitService /\ [][NextService]_vars

\* the service from its construction: the three threads started, init()
\* not yet called, TOGGLE_OFFER set or not
InitShutdown ==
    /\ Constructed
    /\ toggle_ack = FALSE
    /\ toggle_offer \in BOOLEAN
    /\ AUTOSAR_WIRE = FALSE
    /\ request_count_ = 0
    /\ sub_handlers_ = FALSE
    /\ offer_pc = "lock"
    /\ blocked_ = FALSE
    /\ service_init_pc = "idle"
    /\ service_mutex_ = "free"
    /\ notify_mutex_ = "free"
    /\ notify_pc = "start"
    /\ shutdown_requested_ = FALSE
    /\ shutdown_mutex_ = "free"
    /\ shutdown_pc = "start"

\* hello_service: init(), a shutdown request, the shutdown, offer and notify
\* threads, stop(), and the timer threads the notify thread starts
NextShutdown ==
    \/ \E app_init_ok \in BOOLEAN : service_init(app_init_ok)
    \/ shutdown_request
    \/ shutdown_th_lock
    \/ shutdown_th_test
    \/ shutdown_th_wait
    \/ shutdown_th_relock
    \/ shutdown_th_done
    \/ offer_th_lock
    \/ offer_th_gate
    \/ offer_th_wait
    \/ offer_th_spurious_wake
    \/ offer_th_relock
    \/ offer_th_start
    \/ offer_th_loop
    \/ offer_th_act
    \/ \E t \in Timers : notify_th_add_timer(t)
    \/ notify_th_loop
    \/ notify_th_lock
    \/ notify_th_test
    \/ notify_th_wait
    \/ notify_th_spurious_wake
    \/ notify_th_relock
    \/ notify_th_sleep
    \/ service_stop_flag
    \/ service_stop_unregister
    \/ service_stop_offer
    \/ service_stop_timers
    \/ service_stop_join_offer
    \/ service_stop_join_notify
    \/ \E t \in Timers : timer_lock(t)
    \/ \E t \in Timers : timer_pred(t)
    \/ \E t \in Timers : timer_block(t)
    \/ \E t \in Timers : timer_expire(t)
    \/ \E t \in Timers : timer_relock(t)
    \/ \E t \in Timers : timer_check(t)
    \/ \E t \in Timers : timer_callback(t)
    \/ \E t \in Timers : timer_callback_return(t, 0)

SpecShutdown == InitShutdown /\ [][NextShutdown]_vars

\* the text and event calls of hello_utils, built with or without
\* AUTOSAR_WIRE
InitCodec ==
    /\ Constructed
    /\ ServiceStarted
    /\ toggle_ack = FALSE
    /\ toggle_offer = FALSE
    /\ AUTOSAR_WIRE \in BOOLEAN
    /\ request_count_ = 0

NextCodec ==
    \/ \E s \in Texts : codec_serialize_request(s)
    \/ \E s \in Texts : codec_serialize_response(s)
    \/ \E e \in Events : codec_serialize_event(e)
    \/ \E p \in TextPayloads : codec_receive("request", p)
    \/ \E p \in TextPayloads : codec_receive("response", p)
    \/ \E p \in EventPayloads : codec_receive("event", p)
    \/ codec_deserialize_request
    \/ codec_deserialize_response
    \/ codec_deserialize_event
    \/ codec_done

SpecCodec == InitCodec /\ [][NextCodec]_vars

(***************************************************************************)
(* Request correlator (hello_client)                                       *)
(***************************************************************************)
\* send_hello() has returned to run() and stop() has not been called
ReturnedRunning == rq_pc = "returned" /\ running_

\* C1: a reply with the active id processed while send_hello() is blocked in
\* its wait is stored, and send_hello() then returns exactly that Response
C1_MatchedReplyIsReturned ==
    (ReturnedRunning /\ matched # <<>> /\ matched[1].at = "waiting")
        => ret = matched[1].reply

\* C2: processing a reply whose id differs from the active id leaves the
\* active id and the stored Response unchanged and wakes no caller
C2_MismatchIsDiscarded ==
    [][\A r \in replies, again \in BOOLEAN :
          (on_hello_reply(r, again) /\ r.id # hello_req_id_)
              => /\ UNCHANGED <<hello_req_id_, hello_resp_, rq_pc>>
                 /\ last_reply'.outcome = "stray"]_vars

\* a stray reply was processed while the caller stays blocked in its wait
C2_Witness ==
    /\ last_reply.outcome = "stray"
    /\ last_reply.id # hello_req_id_
    /\ rq_pc = "waiting"
    /\ hello_req_id_ = req_id

\* the slot still holds the id of a call that timed out
StaleAfterTimeout ==
    /\ rq_pc \in {"returned", "loop", "call", "finished"}
    /\ ret_kind = "timeout"
    /\ hello_req_id_ = req_id

\* a wait that ends by timeout returns the empty Response and leaves the slot
\* alone: the id of the call if no reply matched it during the wait
TimeoutKeepsId ==
    (send_hello_return /\ rq_pc = "expired")
        => /\ ret' = <<>>
           /\ ret_kind' = "timeout"
           /\ hello_req_id_' = hello_req_id_
           /\ (matched = <<>> => hello_req_id_' = req_id)

\* C3 (as stated): after a timeout the slot keeps the timed-out id until the
\* next send_hello() overwrites it: nothing else changes it
C3_StaleUntilNextSend ==
    [][/\ TimeoutKeepsId
       /\ (StaleAfterTimeout /\ hello_req_id_' # hello_req_id_)
              => send_hello_begin]_vars

\* C3 (amended): a wait that ends by timeout returns the empty Response and
\* does not clear the slot; the slot keeps the timed-out id until the next
\* send_hello() overwrites it or a late reply with that id matches and
\* clears it
C3_StaleUntilSendOrLateReply ==
    [][/\ TimeoutKeepsId
       /\ (StaleAfterTimeout /\ hello_req_id_' # hello_req_id_)
              => \/ send_hello_begin
                 \/ /\ hello_req_id_' = 0
                    /\ last_reply' = [id |-> req_id, outcome |-> "match"]
                    /\ \E r \in replies : r.id = req_id]_vars

\* a call timed out after an earlier one had stored a Response
C3_Witness ==
    /\ StaleAfterTimeout
    /\ rq_pc = "returned"
    /\ ret = <<>>
    /\ hello_resp_ # <<>>
    /\ req_id # 0

\* C4: a reply with the active id processed before the wait has returned
\* makes send_hello() return that Response, not the empty timeout result
C4_ReplyBeatsTimeout ==
    (ReturnedRunning /\ matched # <<>>)
        => (ret = matched[1].reply /\ ret_kind # "timeout")

\* C5: once stop() has cleared running_ and notified, the caller is not left
\* blocked in its wait with only the timeout to end it
C5_StopEndsTheWait ==
    stop_pc \in {"notified", "cleared"} => rq_pc # "waiting"

\* C6: a further reply with the id of an already resolved request is
\* discarded: the slot, the stored Response and the caller are left alone
C6_ResolvedIdIsStray ==
    [][\A r \in replies, again \in BOOLEAN :
          (on_hello_reply(r, again) /\ r.id \in resolved)
              => /\ UNCHANGED <<hello_req_id_, hello_resp_, rq_pc, resolved>>
                 /\ last_reply' = [id |-> r.id, outcome |-> "stray"]]_vars

\* the reply of a resolved request was delivered again while the next call
\* waits for its own
C6_Witness ==
    /\ last_reply.outcome = "stray"
    /\ last_reply.id \in resolved
    /\ rq_pc = "waiting"
    /\ hello_resp_ # <<>>

\* C7: every send_hello() stores the fresh id of its request over whatever
\* the slot held; afterwards a reply matches iff it carries the id in the
\* slot, and a reply to the replaced id is discarded
C7_SingleSlotOverwrite ==
    [][/\ send_hello_begin
              => /\ hello_req_id_' = req_id'
                 /\ req_id' = session + 1
                 /\ hello_req_id_' # hello_req_id_
       /\ \A r \in replies, again \in BOOLEAN :
              on_hello_reply(r, again)
                  => /\ (last_reply'.outcome = "match") <=> (r.id = hello_req_id_)
                     /\ (replaced # 0 /\ r.id = replaced)
                            => /\ last_reply'.outcome = "stray"
                               /\ UNCHANGED <<hello_req_id_, hello_resp_,
                                              rq_pc>>]_vars

\* a send overwrote the stale id of a timed-out call, whose reply then came
C7_Witness ==
    /\ replaced # 0
    /\ last_reply = [id |-> replaced, outcome |-> "stray"]
    /\ hello_req_id_ = req_id
    /\ req_id # replaced

\* the service's answer to a request of the client passing its checks
hello_answer(q) ==
    [id |-> q.id, rc |-> E_OK,
     payload |-> serialize_hello_response(
                     HelloPrefix \o deserialize_hello_request(q.payload).message)]

\* C8: the service answers the encoded Request {message: m} with E_OK and
\* the Response {reply: "Hello " + m}, and a send_hello() resolved by the
\* matching reply returns reply == "Hello " + m
C8_EndToEnd ==
    /\ [](\A q \in requests :
              /\ q = hello_request(q.id, deserialize_hello_request(q.payload).message)
              /\ on_message_cb_response(q).sent
              /\ on_message_cb_response(q).rc = E_OK
              /\ deserialize_hello_response(on_message_cb_response(q).payload)
                     = [ok |-> TRUE,
                        reply |-> HelloPrefix
                                    \o deserialize_hello_request(q.payload).message])
    /\ []((rq_pc = "returned" /\ ret_kind = "reply" /\ matched # <<>>)
              => ret = HelloPrefix \o hello_reqest)
    /\ [][\A q \in requests :
              on_message_cb(q) => hello_answer(q) \in replies']_vars

\* a call for a non-empty text was resolved by the service's reply
C8_Witness ==
    /\ rq_pc = "returned"
    /\ ret_kind = "reply"
    /\ matched # <<>>
    /\ Len(hello_req_) > 0
    /\ ret = matched[1].reply
    /\ ret = HelloPrefix \o hello_reqest

(***************************************************************************)
(* Timer                                                                   *)
(***************************************************************************)
\* C9: once stop_timers() has raised the flag and broadcast, no timer thread
\* is left blocked in its wait, to sit out the rest of its period
C9_StopInterruptsWaits ==
    stt_pc = "done" => \A t \in Timers : t_pc[t] # "waiting"

\* C10: the invocations of one timer's callback never overlap, and the next
\* one starts only after the previous returned and a further wait ran out
C10_PerTimerSequencing ==
    /\ [](\A t \in Timers :
              /\ cb_started[t] - cb_returned[t] \in {0, 1}
              /\ (t_pc[t] = "cb") <=> (cb_started[t] = cb_returned[t] + 1))
    /\ [][\A t \in Timers :
              cb_started'[t] # cb_started[t]
                  => /\ cb_started'[t] = cb_started[t] + 1
                     /\ cb_started[t] = cb_returned[t]
                     /\ wait_elapsed[t]
                     /\ ~wait_elapsed'[t]]_vars

\* a timer's second invocation is running after its first has returned
C10_Witness ==
    \E t \in Timers :
        /\ t_pc[t] = "cb"
        /\ cb_started[t] = 2
        /\ cb_returned[t] = 1

\* C11: a callback running for one timer never holds up another timer's
\* loop: a timer whose wait has run out while another timer's callback is
\* executing can leave its wait (and go on to invoke its own callback)
C11_CrossTimerIndependence ==
    \A a \in Timers, b \in Timers :
        (a # b /\ t_pc[a] = "cb" /\ t_pc[b] = "expired")
            => ENABLED timer_relock(b)

\* the thread of timer t is inside cv_.wait_for(lock, to_wait_us, ...)
InWait(t) == t_pc[t] \in {"pred", "block", "waiting", "woken", "expired"}

Max(a, b) == IF a >= b THEN a ELSE b

\* C12 as stated: the first wait is P ms, and after a callback that took E
\* the next wait is max(1, P - E) in milliseconds, so never under 1 ms
C12_DriftCompensationMs ==
    \A t \in Timers :
        InWait(t) =>
            to_wait_us[t] =
                IF cb_returned[t] = 0
                THEN timer_interval(t) * 1000
                ELSE Max(1 * 1000, timer_interval(t) * 1000 - elapsed[t])

\* C12 amended: the first wait is P ms, and after a callback that took E
\* the next wait is max(1, P - E) counted in microseconds, so the floor
\* under the wait is 1 microsecond
C12_DriftCompensationUs ==
    \A t \in Timers :
        InWait(t) =>
            to_wait_us[t] =
                IF cb_returned[t] = 0
                THEN timer_interval(t) * 1000
                ELSE Max(1, timer_interval(t) * 1000 - elapsed[t])

\* a timer waits the floor of 1 us after a callback that took longer than
\* its period
C12_Witness ==
    \E t \in Timers :
        /\ t_pc[t] = "waiting"
        /\ cb_returned[t] = 1
        /\ elapsed[t] > timer_interval(t) * 1000
        /\ to_wait_us[t] = 1

\* timer threads that add_timer() has started
Started == {t \in Timers : t_pc[t] # "none"}

\* C13 as stated: when stop_timers() has completed, every timer thread has
\* terminated and been joined, or been detached if it made the call itself
C13_StopTimersJoins ==
    stt_pc = "done" =>
        \A t \in Started :
            \/ t \in joined /\ t_pc[t] = "done"
            \/ t \in detached

\* C13 amended: stop_timers() joins nothing; it is when ~Timer() has
\* completed that every timer thread has terminated and been joined, except
\* the thread that ran the destructor itself, which is detached, never joined
C13_DestructorJoins ==
    /\ dtor_pc = "done" =>
           \A t \in Started :
               IF dtor_by = th_name(t)
               THEN t \in detached /\ t \notin joined
               ELSE t \in joined /\ t \notin detached /\ t_pc[t] = "done"
    /\ (dtor_pc = "loop" /\ dtor_i <= Len(threads_)
            /\ dtor_by = th_name(threads_[dtor_i]))
           => ENABLED dtor_join

\* ~Timer(), run by a timer thread from its callback, has completed: it
\* detached that thread and joined the other one
C13_Witness ==
    /\ dtor_pc = "done"
    /\ \E a \in Timers, b \in Timers :
           /\ a # b
           /\ dtor_by = th_name(a)
           /\ detached = {a}
           /\ joined = {b}

\* C14: a callback that throws costs only its own tick: the next wait is
\* still computed, a recurring timer goes round its loop again, and the
\* threads of the other timers and a shutdown in progress are left alone
C14_CallbackFailureContained ==
    [][\A t \in Timers :
           timer_callback_throw(t) =>
               /\ \A u \in Timers \ {t} : t_pc'[u] = t_pc[u]
               /\ t_pc'[t] = after_callback(recurring[t])
               /\ to_wait_us'[t] \in {next_wait_us(t, e) : e \in ElapsedTimes(t)}
               /\ stt_pc' = stt_pc]_vars

\* C15: a non-recurring timer invokes its callback at most once, and exactly
\* once unless a stop cut it short, after which its thread has terminated;
\* a recurring timer's thread terminates only because a stop was signalled
C15_NonRecurringFiresOnce ==
    \A t \in Started :
        IF recurring[t]
        THEN t_pc[t] = "done" => ~is_running_
        ELSE /\ cb_started[t] <= 1
             /\ cb_returned[t] = 1 => t_pc[t] = "done"
             /\ (t_pc[t] = "done" /\ is_running_) => cb_returned[t] = 1

\* with no stop signalled, a non-recurring timer has fired once and ended
\* while a recurring one is in its second invocation
C15_Witness ==
    /\ is_running_
    /\ \E t \in Started, u \in Started :
           /\ ~recurring[t] /\ t_pc[t] = "done" /\ cb_returned[t] = 1
           /\ recurring[u] /\ t_pc[u] = "cb" /\ cb_started[u] = 2

(***************************************************************************)
(* Broadcast gate and subscriptions (hello_service)                        *)
(***************************************************************************)
\* a notify_event() call returns at one of its checks, having sent nothing
ReturnsWithoutEmitting ==
    /\ ne_pc \in {"offered", "running", "count"}
    /\ ne_pc' = "idle"

\* a notify_event() call that passed its checks hands the encoded event to
\* app_->notify() and returns true
EmitsCurrentEvent ==
    (ne_pc = "emit" /\ ne_pc' # ne_pc) =>
        /\ notified' = Append(notified, serialize_hello_event(ne_event))
        /\ ne_ret' = "true"

\* C16 as stated: notify_event() returns true with nothing sent whenever the
\* service is not offered or the subscriber count is <= 0, and in every
\* other case goes on to encode the event and hand it to app_->notify()
C16_GateDecision ==
    [][/\ ReturnsWithoutEmitting =>
              /\ ~is_offered_ \/ subscribe_count_ <= 0
              /\ notified' = notified
              /\ ne_ret' = "true"
       /\ (ne_pc = "offered" /\ ne_pc' # ne_pc /\ ~is_offered_)
              => ne_pc' = "idle"
       /\ (ne_pc = "count" /\ ne_pc' # ne_pc /\ subscribe_count_ <= 0)
              => ne_pc' = "idle"
       /\ (ne_pc = "running" /\ ne_pc' # ne_pc
               /\ is_offered_ /\ subscribe_count_ > 0) => ne_pc' # "idle"
       /\ (ne_pc = "count" /\ ne_pc' # ne_pc
               /\ is_offered_ /\ subscribe_count_ > 0) => ne_pc' = "emit"
       /\ EmitsCurrentEvent]_vars

\* C16 amended: nothing is sent and true is returned whenever the call
\* finds the service not offered, no longer running, or the subscriber
\* count <= 0, and in every other case the event is encoded and handed on
C16_GateDecisionRunning ==
    [][/\ ReturnsWithoutEmitting =>
              /\ ~is_offered_ \/ ~service_running_ \/ subscribe_count_ <= 0
              /\ notified' = notified
              /\ ne_ret' = "true"
       /\ (ne_pc = "offered" /\ ne_pc' # ne_pc)
              => ne_pc' = IF is_offered_ THEN "running" ELSE "idle"
       /\ (ne_pc = "running" /\ ne_pc' # ne_pc)
              => ne_pc' = IF service_running_ THEN "count" ELSE "idle"
       /\ (ne_pc = "count" /\ ne_pc' # ne_pc)
              => ne_pc' = IF subscribe_count_ > 0 THEN "emit" ELSE "idle"
       /\ EmitsCurrentEvent]_vars

\* the gate has let one event through and has held one back after stop()
\* cleared running_, with the service still offered and subscribed to
C16_Witness ==
    /\ Len(notified) = 1
    /\ ne_pc = "idle"
    /\ ne_ret = "true"
    /\ ~service_running_
    /\ is_offered_
    /\ subscribe_count_ > 0

\* C17: no event is handed to app_->notify() at a moment when there is no
\* active subscriber or the service is not offered
C17_GateAtomicity ==
    [][notified' # notified => (is_offered_ /\ subscribe_count_ > 0)]_vars

\* subscribe notifications among the first i notifications
SubscribesUpTo(i) == Cardinality({j \in 1..i : sub_log[j][1]})

\* unsubscribe notifications among the first i notifications
UnsubscribesUpTo(i) == Cardinality({j \in 1..i : ~sub_log[j][1]})

\* C18: with TOGGLE_ACK the k-th subscribe request is accepted iff k is
\* odd; without it every subscribe request is accepted
C18_AcceptancePolicy ==
    \A i \in 1..Len(sub_log) :
        sub_log[i][1] =>
            (sub_log[i][2] <=> (toggle_ack => SubscribesUpTo(i) % 2 = 1))

\* with TOGGLE_ACK, the first subscribe request was accepted and the
\* second, which came after an unsubscribe, was rejected
C18_Witness ==
    /\ toggle_ack
    /\ Len(sub_log) = 3
    /\ sub_log[1] = <<TRUE, TRUE>>
    /\ ~sub_log[2][1]
    /\ sub_log[3] = <<TRUE, FALSE>>

\* C19: the active-subscriber count is the number of subscribe minus the
\* number of unsubscribe notifications, rejected subscribes included
C19_SubscriberAccounting ==
    subscribe_count_ =
        SubscribesUpTo(Len(sub_log)) - UnsubscribesUpTo(Len(sub_log))

\* a rejected subscribe has been counted like an accepted one
C19_Witness ==
    /\ Len(sub_log) = 2
    /\ sub_log[1] = <<TRUE, TRUE>>
    /\ sub_log[2] = <<TRUE, FALSE>>
    /\ subscribe_count_ = 2

\* C20: the active-subscriber count is never negative
C20_CountNeverNegative == subscribe_count_ >= 0

\* C21: offer() and stop_offer() never change the subscriber count; a
\* notify_event() call made while the offer is withdrawn sends nothing, and
\* one made once the service is offered again passes that check
C21_OfferToggleKeepsCount ==
    [][/\ is_offered_' # is_offered_ =>
              /\ subscribe_count_' = subscribe_count_
              /\ sub_count' = sub_count
       /\ (ne_pc = "offered" /\ ne_pc' # ne_pc /\ ~is_offered_) =>
              /\ ne_pc' = "idle"
              /\ notified' = notified
       /\ (ne_pc = "offered" /\ ne_pc' # ne_pc /\ is_offered_) =>
              ne_pc' # "idle"]_vars

\* the offer was withdrawn and made again with a subscriber present, the
\* count is what it was, and an event is passing the gate again
C21_Witness ==
    /\ toggle_hist = "on"
    /\ is_offered_
    /\ sub_log = << <<TRUE, TRUE>> >>
    /\ subscribe_count_ = 1
    /\ ne_pc = "emit"

(***************************************************************************)
(* Payload encoding (hello_utils)                                          *)
(***************************************************************************)
\* C22: a text handed to serialize_hello_request or serialize_hello_response
\* comes back unchanged from the matching deserialize call, with and
\* without AUTOSAR_WIRE
C22_TextRoundTrip ==
    (c_pc = "round_trip" /\ c_kind \in {"request", "response"})
        => /\ c_out.ok
           /\ ~c_out.thrown
           /\ c_out.text = c_text

\* the two 16 bit halves of the 32 bit field at offset o of payload p
HighHalf(p, o) == p[o + 1] * 256 + p[o + 2]
LowHalf(p, o) == p[o + 3] * 256 + p[o + 4]
HoldsInt32(p, o, v) ==
    /\ HighHalf(p, o) = (v \div 65536) % 65536
    /\ LowHalf(p, o) = v % 65536

\* C23: an encoded event is 17 bytes, four big-endian 32 bit fields and the
\* id byte, and decoding them succeeds and gives the event back
C23_EventRoundTrip ==
    /\ (c_pc \in {"encoded", "round_trip"} /\ c_kind = "event")
           => /\ Len(c_payload) = 17
              /\ HoldsInt32(c_payload, 0, c_event.hours)
              /\ HoldsInt32(c_payload, 4, c_event.minutes)
              /\ HoldsInt32(c_payload, 8, c_event.seconds)
              /\ HoldsInt32(c_payload, 12, c_event.nanos)
              /\ c_payload[17] = c_event.timer_id
    /\ (c_pc = "round_trip" /\ c_kind = "event")
           => /\ c_out.ok
              /\ c_out.event = c_event

C23_Witness ==
    /\ c_pc = "round_trip"
    /\ c_kind = "event"
    /\ c_event = [hours |-> -2147483647 - 1, minutes |-> 59, seconds |-> -1,
                  nanos |-> 2147483647, timer_id |-> Timer_1ms]
    /\ c_out.ok
    /\ c_out.event = c_event

\* C24: decoding an event fails for a payload of fewer than 17 bytes and
\* succeeds for one of 17 bytes whatever its tag byte
C24_EventDecodeBoundary ==
    (c_pc \in {"round_trip", "decoded"} /\ c_kind = "event")
        => /\ Len(c_payload) < 17 => ~c_out.ok
           /\ Len(c_payload) = 17 => c_out.ok

C24_Witness ==
    /\ c_pc = "decoded"
    /\ c_kind = "event"
    /\ Len(c_payload) = 17
    /\ c_payload[17] = 255
    /\ c_out.ok
    /\ c_out.event.timer_id = 255

\* the length field of a length-prefixed text payload
LengthField(p) == bytes_to_long(p[1], p[2], p[3], p[4])

\* C29: with AUTOSAR_WIRE, decoding a request payload fails when the payload
\* is shorter than 5 bytes or its length field is below 1 or above the bytes
\* after the prefix, and otherwise gives (length field - 1) content bytes
C29_LengthPrefixedValidation ==
    (AUTOSAR_WIRE /\ c_pc = "decoded" /\ c_kind = "request")
        => IF \/ Len(c_payload) < 5
              \/ LengthField(c_payload) < 1
              \/ LengthField(c_payload) > Len(c_payload) - 4
           THEN ~c_out.ok
           ELSE /\ c_out.ok
                /\ c_out.text = SubSeq(c_payload, 5,
                                       3 + LengthField(c_payload))

(***************************************************************************)
(* Error handling and start of the request thread                          *)
(***************************************************************************)
\* C25: what send_hello() returns for a timed-out request is told apart by
\* its caller from what it returns for a call ended by stop() or resolved by
\* a reply with empty content: the empty response is returned for a timeout
\* and for nothing else
C25_TimeoutDistinguishable ==
    rq_pc = "returned" => ((ret = <<>>) <=> (ret_kind = "timeout"))

\* the requests on_message_cb handles in a step, and the responses it sends
Handled == requests \ requests'
Sent == replies' \ replies

VersionOk(q) == q.protocol_version = VSOMEIP_PROTOCOL_VERSION
ServiceOk(q) == q.service = HELLO_SERVICE_ID
InstanceOk(q) == q.instance = HELLO_INSTANCE_ID

\* the response to q carries return code rc and no payload
Refused(q, rc) ==
    /\ rc # E_OK
    /\ Sent = {[id |-> q.id, rc |-> rc, payload |-> <<>>]}

\* the response to q carries E_OK and the greeting for q's text
Greeted(q) ==
    Sent = {[id |-> q.id, rc |-> E_OK,
             payload |-> HelloPrefix
                             \o SubSeq(q.payload, 1, Len(q.payload) - 1)
                             \o <<0>>]}

\* the answers of on_message_cb, with InterfaceOk(q) telling whether the
\* interface version of q is taken as right
MismatchAnswers(InterfaceOk(_)) ==
    \A q \in Handled :
        /\ ~VersionOk(q) => Refused(q, E_WRONG_PROTOCOL_VERSION)
        /\ (VersionOk(q) /\ ~ServiceOk(q)) => Refused(q, E_UNKNOWN_SERVICE)
        /\ (VersionOk(q) /\ ServiceOk(q) /\ ~InterfaceOk(q))
               => Refused(q, E_WRONG_INTERFACE_VERSION)
        /\ (VersionOk(q) /\ ServiceOk(q) /\ InterfaceOk(q) /\ ~InstanceOk(q))
               => Refused(q, E_UNKNOWN)
        /\ (VersionOk(q) /\ ServiceOk(q) /\ InterfaceOk(q) /\ InstanceOk(q)
                /\ q.payload # <<>>)
               => Greeted(q)
        /\ UNCHANGED serviceVars

IsMajor(q) == q.interface_version = HELLO_SERVICE_MAJOR
IsMajorOrAny(q) == q.interface_version \in {HELLO_SERVICE_MAJOR, ANY_MAJOR}

C27_UndecodableDropped ==
    [][\A r \in replies :
           (/\ r.rc = E_OK
            /\ ~deserialize_hello_response(r.payload).ok
            /\ replies' = replies \ {r})
               => /\ hello_req_id_' = hello_req_id_
                  /\ hello_resp_' = hello_resp_
                  /\ rq_pc' = rq_pc]_vars

\* C28: a request is sent only once init() has completed and the service
\* has been reported available, and never if stop() began before both held
C28_StartGating ==
    [][session' # session
           => /\ init_pc = "done"
              /\ is_available_
              /\ ~stop_before_ready]_vars

C28_Witness ==
    /\ rq_pc = "sent"
    /\ session = 1
    /\ init_pc = "done"
    /\ is_available_
    /\ initialized_
    /\ stop_pc = "idle"

Terminated(t) == t_pc[t] \in {"none", "done"}

\* timer t has not invoked its callback and is not past the stop tests
NeverInvoked(t) ==
    /\ ~is_running_
    /\ cb_started[t] = 0
    /\ t_pc[t] \in {"none", "lock", "pred", "done"}

\* C31: once stop_timers() has cleared is_running_, every timer thread
\* terminates in the end, wherever it was and whether or not the
\* notification reached it; a timer not yet added by then never invokes
\* its callback
C31_TimerTermination ==
    /\ \A t \in Timers : (~is_running_) ~> Terminated(t)
    /\ [][\A t \in Timers : NeverInvoked(t) => NeverInvoked(t)']_vars
    /\ [](~is_running_ => [](~is_running_))

\* a timer added after stop_timers() has ended without a callback, another
\* one stopped after firing
C31_Witness ==
    /\ stt_pc = "done"
    /\ \E t, u \in Timers :
           /\ t_pc[t] = "done" /\ cb_started[t] = 0
           /\ Len(threads_) = 2 /\ threads_[2] = t
           /\ t_pc[u] = "done" /\ cb_returned[u] > 0

\* C36: after stop_timers() has returned, no timer thread starts a new
\* callback invocation (one in progress may complete)
C36_NoCallbackAfterStop ==
    [][stt_pc = "done" => \A t \in Timers : cb_started'[t] = cb_started[t]]_vars

\* C32: after stop() the request thread leaves its wait for init and
\* availability: once stop() is past its notifications, the thread is not
\* left in condition_.wait() with nothing remaining that could notify it
\* (init() has run, the handlers are cleared)
C32_ClientStopTerminates ==
    (stop_pc = "cleared" /\ rq_pc = "gate_wait") =>
        (init_pc = "idle" \/ handlers_)

\* C38: while the request thread is blocked in send_hello waiting for a
\* reply it holds no lock a dispatch handler takes: neither mutex_
\* (on_availability) nor request_mutex_ (on_hello_reply)
C38_NoHandlerBlocked ==
    rq_pc = "waiting" =>
        /\ mutex_ # "request_thread"
        /\ request_mutex_ # "request_thread"

\* C39: on_hello_reply never handles the reply to the request of the
\* running send_hello call between the transmission and the start of the
\* wait, and when it handles it while the caller waits, the reply is
\* matched, the id cleared and the caller woken
C39_ReplyNotBeforeWait ==
    [][\A r \in replies :
          (r.id = req_id /\ \E again \in BOOLEAN : on_hello_reply(r, again))
          => /\ rq_pc \notin {"sent", "about_to_wait"}
             /\ rq_pc = "waiting" =>
                    /\ rq_pc' = "woken"
                    /\ hello_req_id_' = 0
                    /\ matched' = <<[reply |-> decoded_response(r),
                                     at |-> "waiting"]>>]_vars

\* the caller woken by the reply it was waiting for
C39_Witness ==
    /\ rq_pc = "woken"
    /\ hello_req_id_ = 0
    /\ req_id \in resolved
    /\ Len(matched) = 1
    /\ matched[1].at = "waiting"
    /\ matched[1].reply = HelloPrefix \o hello_reqest

\* C40: send_hello returns a non-empty Response only if a reply with the
\* id of this call was matched during the call, and then that reply's
\* Response, never one stored for an earlier request
C40_ResponseIsOfThisCall ==
    (rq_pc = "returned" /\ ret # <<>>) =>
        /\ matched # <<>>
        /\ ret = matched[1].reply
        /\ req_id \in resolved

\* C37: on_message_cb sends exactly one response for the request it handles,
\* with the request's id, and the response carries E_OK only if the protocol
\* version, service, interface version and instance checks passed and the
\* payload decoded
C37_OneResponsePerRequest ==
    [][\A q \in Handled :
          \E r \in Sent :
              /\ Sent = {r}
              /\ r.id = q.id
              /\ r.rc = E_OK =>
                     /\ VersionOk(q) /\ ServiceOk(q)
                     /\ IsMajorOrAny(q) /\ InstanceOk(q)
                     /\ q.payload # <<>>]_vars

\* a request without payload answered E_MALFORMED_MESSAGE and one refused
\* for its instance, each with its one response
C37_Witness ==
    /\ requests = {}
    /\ Cardinality(replies) = 2
    /\ \E r \in replies : r.id = 1 /\ r.rc = E_MALFORMED_MESSAGE
    /\ \E r \in replies : r.id = 2 /\ r.rc = E_UNKNOWN

\* C33: stop() is not left joining a thread that missed its wake-up: when
\* stop() waits in offer_thread_.join(), the offer thread is not in
\* condition_.wait() with init() already run, and when it waits in
\* notify_thread_.join(), the notify thread is not in
\* notify_condition_.wait() (stop() has sent its notifications, and nothing
\* else is left to notify either condition)
C33_ServiceShutdownTerminates ==
    /\ (service_stop_pc = "timers_stopped" /\ service_init_pc # "idle")
           => offer_pc # "gate_wait"
    /\ service_stop_pc = "offer_joined" => notify_pc # "waiting"

\* C34: when stop() has returned, is_offered_ is false
C34_NotOfferedAfterStop ==
    service_stop_pc = "returned" => ~is_offered_

\* C35: once notify_th() has returned, no timer thread is in its callback
\* or about to invoke it
C35_NoCallbackAfterNotifyTh ==
    notify_pc = "done" =>
        \A t \in Timers : t_pc[t] \notin {"invoke", "cb"}

====
